---------------------------- MODULE Spec2Model ----------------------------
(***************************************************************************)
(* Conversion classification of the studio-stats dashboard.                *)
(*                                                                         *)
(* The model follows ConversionSummaryTable (src/unnamed/part_001): the    *)
(* memoized computation `processedData` that turns the rows of the         *)
(* new-client export and of the payments export into one ProcessedClient   *)
(* per client row.                                                         *)
(*                                                                         *)
(* JavaScript values are records [t, s, n]: t is the type tag, s the       *)
(* characters of a string (a sequence of one-character strings, so that    *)
(* toLowerCase, includes, replace and parseFloat are computed and not      *)
(* assumed), n the value of a number.  Times are milliseconds counted from *)
(* 2023-12-31T00:00:00Z: the code only compares and subtracts them.        *)
(***************************************************************************)
EXTENDS Integers, Sequences, FiniteSets, TLC

VARIABLES
  newClientData, salesData, pc, processed,        \* ConversionSummaryTable
  stats,                                          \* its summaryStats
  data, type, footerPc, metrics,                  \* EnhancedSummaryFooter
  files, isProcessing, progress, currentStep,     \* the Index page
  pageData, resultsVisible,
  hpc, env, reports, emitted,                     \* a run of handleProcessFiles
  selectedProvider, apiKey, selectedModel,        \* AISettingsModal
  aiSettings,                                     \* localStorage['ai-settings']
  runs,                                           \* invocations of handleProcessFiles
  processedTeacherData, filteredData, storage,    \* the Index page's data and localStorage
  barData, selectedFilters, reported,             \* EnhancedFilterBar
  query, queryProcessing, responses, accepted,    \* SmartQueryInterface
  queryRows                                       \* its data prop

tableVars == <<newClientData, salesData, pc, processed>>

footerVars == <<data, type, footerPc, metrics>>

pageVars ==
  <<files, isProcessing, progress, currentStep, pageData, resultsVisible,
    hpc, env, reports, emitted>>

modalVars == <<selectedProvider, apiKey, selectedModel, aiSettings>>

(* the components that a specification of another component leaves alone *)
storageVars == <<processedTeacherData, filteredData, storage>>

filterVars == <<barData, selectedFilters, reported>>

queryVars == <<query, queryProcessing, responses, accepted, queryRows>>

restVars == <<storageVars, filterVars, queryVars>>

sideVars == <<modalVars, runs, restVars>>

vars == <<tableVars, stats, footerVars, pageVars, sideVars>>

---------------------------------------------------------------------------
(* Bounds of the model: the longest arrays of rows handed to the component *)
MaxClients == 2

MaxSales == 2

(* the longest data prop handed to the summary footer *)
MaxItems == 2

(* the most progress reports processData makes in a run *)
MaxReports == 2

(* the invocations of handleProcessFiles followed at the same time *)
MaxRuns == 2

---------------------------------------------------------------------------
(* JavaScript values *)
Undefined == [t |-> "undefined", s |-> <<>>, n |-> 0]

Null == [t |-> "null", s |-> <<>>, n |-> 0]

NaN == [t |-> "NaN", s |-> <<>>, n |-> 0]

Str(chars) == [t |-> "string", s |-> chars, n |-> 0]

Num(k) == [t |-> "number", s |-> <<>>, n |-> k]

(* ToBoolean: undefined, null, NaN, 0 and '' are falsy *)
Truthy(v) ==
  CASE v.t = "string" -> v.s # <<>>
    [] v.t = "number" -> v.n # 0
    [] OTHER -> FALSE

(* a || b *)
Or(a, b) == IF Truthy(a) THEN a ELSE b

(* a === b : same type and same value; NaN equals nothing *)
StrictEq(a, b) ==
  /\ a.t = b.t
  /\ a.t # "NaN"
  /\ a.s = b.s
  /\ a.n = b.n

IsString(v) == v.t = "string"

---------------------------------------------------------------------------
(* Strings as character sequences *)
UpperCase == <<"A","B","C","D","E","F","G","H","I","J","K","L","M",
               "N","O","P","Q","R","S","T","U","V","W","X","Y","Z">>

LowerCase == <<"a","b","c","d","e","f","g","h","i","j","k","l","m",
               "n","o","p","q","r","s","t","u","v","w","x","y","z">>

(* the lower-case letter of each upper-case letter *)
LowerOf ==
  [c \in { UpperCase[i] : i \in 1..Len(UpperCase) } |->
     LowerCase[CHOOSE i \in 1..Len(UpperCase) : UpperCase[i] = c]]

LowerChar(c) == IF c \in DOMAIN LowerOf THEN LowerOf[c] ELSE c

(* String.prototype.toLowerCase *)
toLowerCase(chars) == [i \in 1..Len(chars) |-> LowerChar(chars[i])]

(* String.prototype.includes *)
includes(chars, sub) ==
  \E i \in 0..(Len(chars) - Len(sub)) : SubSeq(chars, i + 1, i + Len(sub)) = sub

DigitChars == <<"0","1","2","3","4","5","6","7","8","9">>

(* the value of each digit character *)
DigitOf ==
  [c \in { DigitChars[i] : i \in 1..Len(DigitChars) } |->
     (CHOOSE i \in 1..Len(DigitChars) : DigitChars[i] = c) - 1]

IsDigit(c) == c \in DOMAIN DigitOf

DigitValue(c) == DigitOf[c]

RECURSIVE NatToChars(_)
NatToChars(k) ==
  IF k < 10 THEN <<DigitChars[k + 1]>>
  ELSE NatToChars(k \div 10) \o <<DigitChars[(k % 10) + 1]>>

(* String(v) for the values a cell can hold *)
String(v) ==
  CASE v.t = "string" -> v.s
    [] v.t = "number" -> IF v.n < 0 THEN <<"-">> \o NatToChars(0 - v.n)
                         ELSE NatToChars(v.n)
    [] v.t = "NaN" -> <<"N","a","N">>
    [] v.t = "null" -> <<"n","u","l","l">>
    [] OTHER -> <<"u","n","d","e","f","i","n","e","d">>

(* .replace(/[^0-9.-]+/g, '') : keeps digits, dots and minus signs *)
StripNonNumeric(chars) ==
  LET Keep(c) == IsDigit(c) \/ c = "." \/ c = "-"
  IN  SelectSeq(chars, Keep)

RECURSIVE DigitPrefix(_)
DigitPrefix(chars) ==
  IF chars # <<>> /\ IsDigit(Head(chars))
  THEN <<Head(chars)>> \o DigitPrefix(Tail(chars))
  ELSE <<>>

RECURSIVE DigitsToNat(_, _)
DigitsToNat(digits, acc) ==
  IF digits = <<>> THEN acc
  ELSE DigitsToNat(Tail(digits), 10 * acc + DigitValue(Head(digits)))

(* parseFloat on a string of digits and minus signs: an optional sign, then *)
(* the longest run of digits; NaN when there is no digit there.  The cells  *)
(* of the model carry no decimal point, so no fraction is ever read.        *)
parseFloat(chars) ==
  LET neg    == chars # <<>> /\ Head(chars) = "-"
      body   == IF neg THEN Tail(chars) ELSE chars
      digits == DigitPrefix(body)
  IN  IF digits = <<>> THEN NaN
      ELSE Num(IF neg THEN 0 - DigitsToNat(digits, 0) ELSE DigitsToNat(digits, 0))

---------------------------------------------------------------------------
(* Dates.  new Date(text) is modelled by the table of the date texts that  *)
(* occur in the rows; any other text, the empty text included, gives an    *)
(* Invalid Date, whose time value is NaN.                                  *)
MsPerDay == 1000 * 60 * 60 * 24

D_20231231 == <<"2","0","2","3","-","1","2","-","3","1">>

D_20240101 == <<"2","0","2","4","-","0","1","-","0","1">>

D_20240101T06 == <<"2","0","2","4","-","0","1","-","0","1","T","0","6",":","0","0",":","0","0","Z">>

D_20240105 == <<"2","0","2","4","-","0","1","-","0","5">>

(* a cell that is neither a date nor a number *)
D_Garbage == <<"n","/","a">>

DateTable ==
  (D_20231231 :> 0)
  @@ (D_20240101 :> MsPerDay)
  @@ (D_20240101T06 :> MsPerDay + (MsPerDay \div 4))
  @@ (D_20240105 :> 5 * MsPerDay)

(* new Date(v).getTime() for a text v *)
DateTime(v) ==
  IF v.t = "string" /\ v.s \in DOMAIN DateTable
  THEN Num(DateTable[v.s])
  ELSE NaN

(* isNaN(x) *)
isNaN(x) == x.t # "number"

(* a >= b, a < b, a > b, a <= b on numbers: false as soon as one is NaN *)
Geq(a, b) == a.t = "number" /\ b.t = "number" /\ a.n >= b.n

Lt(a, b) == a.t = "number" /\ b.t = "number" /\ a.n < b.n

Gt(a, b) == a.t = "number" /\ b.t = "number" /\ a.n > b.n

Leq(a, b) == a.t = "number" /\ b.t = "number" /\ a.n <= b.n

(* Math.ceil(a / b) for integers a and b > 0 *)
CeilDiv(a, b) == 0 - ((0 - a) \div b)

---------------------------------------------------------------------------
(* Rows: a row is a function from the column labels the code reads to the  *)
(* cell, undefined when the row has no such column.                        *)
ClientColumns ==
  { "Member ID", "memberID", "id", "First name", "firstName", "Last name",
    "lastName", "Email", "email", "First visit at", "firstVisitAt", "date",
    "First visit location", "location", "Membership used", "membershipUsed",
    "Teacher", "teacher" }

SaleColumns ==
  { "Customer email", "Paying Customer email", "email", "Member ID",
    "memberID", "Date", "date", "Sale value", "value", "Category",
    "category", "Item", "item", "product", "Refunded" }

Row(columns, cells) ==
  [c \in columns |-> IF c \in DOMAIN cells THEN cells[c] ELSE Undefined]

---------------------------------------------------------------------------
(* processedData, part 1: the fields read from a client row *)
T_AllTrainers == <<"a","l","l"," ","t","r","a","i","n","e","r","s">>

T_Unknown == <<"U","n","k","n","o","w","n">>

T_ClientPrefix == <<"c","l","i","e","n","t","_">>

(* client.Teacher.toLowerCase() is called on whatever truthy value the    *)
(* cell holds: a number has no such method and the call throws            *)
teacherThrows(client) ==
  Truthy(client["Teacher"]) /\ ~IsString(client["Teacher"])

(* if (client.Teacher && client.Teacher.toLowerCase().includes('all trainers')) return *)
skipAllTrainers(client) ==
  /\ Truthy(client["Teacher"])
  /\ IsString(client["Teacher"])
  /\ includes(toLowerCase(client["Teacher"].s), T_AllTrainers)

(* index is the forEach index, counted from 0 *)
memberID(client, index) ==
  Or(Or(Or(client["Member ID"], client["memberID"]), client["id"]),
     Str(T_ClientPrefix \o NatToChars(index)))

firstName(client) == Or(Or(client["First name"], client["firstName"]), Str(<<>>))

lastName(client) == Or(Or(client["Last name"], client["lastName"]), Str(<<>>))

email(client) == Or(Or(client["Email"], client["email"]), Str(<<>>))

firstVisitDate(client) ==
  Or(Or(Or(client["First visit at"], client["firstVisitAt"]), client["date"]), Str(<<>>))

firstVisitLocation(client) ==
  Or(Or(client["First visit location"], client["location"]), Str(<<>>))

membershipUsed(client) ==
  Or(Or(client["Membership used"], client["membershipUsed"]), Str(<<>>))

teacher(client) == Or(Or(client["Teacher"], client["teacher"]), Str(T_Unknown))

visitDate(client) == DateTime(firstVisitDate(client))

(* the validation errors pushed before the sales are looked at *)
fieldErrors(client) ==
  (IF ~Truthy(email(client)) THEN <<"Missing email address">> ELSE <<>>)
  \o (IF ~Truthy(firstVisitDate(client)) THEN <<"Missing first visit date">> ELSE <<>>)
  \o (IF ~Truthy(firstName(client)) /\ ~Truthy(lastName(client))
      THEN <<"Missing client name">> ELSE <<>>)
  \o (IF Truthy(firstVisitDate(client)) /\ isNaN(visitDate(client))
      THEN <<"Invalid first visit date format">> ELSE <<>>)

---------------------------------------------------------------------------
(* processedData, part 2: matching and filtering the payment rows *)
T_Zero == <<"0">>

T_TwoForOne == <<"2"," ","f","o","r"," ","1">>

T_Retail == <<"r","e","t","a","i","l">>

T_YES == <<"Y","E","S">>

emailMatch(sale, mail) ==
  \/ StrictEq(sale["Customer email"], mail)
  \/ StrictEq(sale["Paying Customer email"], mail)
  \/ StrictEq(sale["email"], mail)

memberIDMatch(sale, id) ==
  \/ StrictEq(sale["Member ID"], id)
  \/ StrictEq(sale["memberID"], id)

(* faulty variant: both keys are required *)
saleMatchesBothKeys(sale, mail, id) == emailMatch(sale, mail) /\ memberIDMatch(sale, id)

saleMatches(sale, mail, id) == emailMatch(sale, mail) \/ memberIDMatch(sale, id)

(* the positions, in input order, of the payment rows salesData.filter keeps *)
matchingSales(sales, mail, id) ==
  LET Keep(j) == saleMatches(sales[j], mail, id)
  IN  SelectSeq([j \in 1..Len(sales) |-> j], Keep)

saleDate(sale) == DateTime(Or(Or(sale["Date"], sale["date"]), Str(<<>>)))

saleValue(sale) ==
  parseFloat(StripNonNumeric(String(Or(Or(sale["Sale value"], sale["value"]), Str(T_Zero)))))

categoryCell(sale) == Or(Or(sale["Category"], sale["category"]), Str(<<>>))

productCell(sale) == Or(Or(Or(sale["Item"], sale["item"]), sale["product"]), Str(<<>>))

(* .toLowerCase() on a cell that holds a number throws a TypeError *)
saleThrows(sale) == ~IsString(categoryCell(sale)) \/ ~IsString(productCell(sale))

category(sale) == toLowerCase(categoryCell(sale).s)

product(sale) == toLowerCase(productCell(sale).s)

validSaleValue(sale) == Gt(saleValue(sale), Num(0))

notTwoForOne(sale) == ~includes(product(sale), T_TwoForOne)

notRetail(sale) == category(sale) # T_Retail

saleDateValid(sale) == ~isNaN(saleDate(sale))

(* faulty variant: the purchase date is not compared with the visit *)
saleDateAfterVisitUnchecked(sale, visit) == saleDateValid(sale)

saleDateAfterVisit(sale, visit) == saleDateValid(sale) /\ Geq(saleDate(sale), visit)

notRefunded(sale) == ~StrictEq(sale["Refunded"], Str(T_YES))

(* faulty variant: the refund flag is not looked at *)
validSaleIgnoringRefund(sale, visit) ==
  /\ validSaleValue(sale)
  /\ notTwoForOne(sale)
  /\ notRetail(sale)
  /\ saleDateAfterVisit(sale, visit)

(* the value the validSales filter callback returns for a matching row *)
validSale(sale, visit) ==
  /\ validSaleValue(sale)
  /\ notTwoForOne(sale)
  /\ notRetail(sale)
  /\ saleDateAfterVisit(sale, visit)
  /\ notRefunded(sale)

validSales(sales, matching, visit) ==
  LET Keep(j) == validSale(sales[j], visit)
  IN  SelectSeq(matching, Keep)

(* faulty variant: a value of zero is flagged too *)
negativeOrZeroSaleValue(sale) == Leq(saleValue(sale), Num(0))

negativeSaleValue(sale) == Lt(saleValue(sale), Num(0))

(* one 'Negative sale value detected' per matching row with saleValue < 0 *)
negativeErrors(sales, matching) ==
  LET Neg(j) == negativeSaleValue(sales[j])
  IN  [k \in 1..Len(SelectSeq(matching, Neg)) |-> "Negative sale value detected"]

---------------------------------------------------------------------------
(* processedData, part 3: the first purchase of a converted client *)

(* the comparator of validSales.sort: dateA.getTime() - dateB.getTime() *)
compareSales(a, b) == saleDate(a).n - saleDate(b).n

(* faulty variant: an unstable sort, which puts a row before the rows equal to it *)
RECURSIVE insertSaleBeforeEqual(_, _, _)
insertSaleBeforeEqual(sales, sorted, j) ==
  IF sorted = <<>> THEN <<j>>
  ELSE IF compareSales(sales[Head(sorted)], sales[j]) < 0
       THEN <<Head(sorted)>> \o insertSaleBeforeEqual(sales, Tail(sorted), j)
       ELSE <<j>> \o sorted

(* Array.prototype.sort is stable (ECMAScript 2019): a row is placed after *)
(* the rows that compare less than or equal to it and came before it       *)
RECURSIVE insertSale(_, _, _)
insertSale(sales, sorted, j) ==
  IF sorted = <<>> THEN <<j>>
  ELSE IF compareSales(sales[Head(sorted)], sales[j]) <= 0
       THEN <<Head(sorted)>> \o insertSale(sales, Tail(sorted), j)
       ELSE <<j>> \o sorted

RECURSIVE sortedSales(_, _)
sortedSales(sales, valid) ==
  IF valid = <<>> THEN <<>>
  ELSE insertSale(sales, sortedSales(sales, SubSeq(valid, 1, Len(valid) - 1)),
                  valid[Len(valid)])

firstPurchaseDate(firstSale) == Or(Or(firstSale["Date"], firstSale["date"]), Str(<<>>))

firstPurchaseProduct(firstSale) == productCell(firstSale)

firstPurchaseValue(firstSale) == saleValue(firstSale)

(* faulty variant: whole days elapsed, rounded down *)
daysToConversionFloor(purchase, visit) ==
  IF ~isNaN(purchase) /\ ~isNaN(visit)
  THEN Num((purchase.n - visit.n) \div MsPerDay)
  ELSE Null

(* Math.ceil((purchaseDate.getTime() - visitDate.getTime()) / (1000*60*60*24)), *)
(* left null when one of the two dates is invalid                               *)
daysToConversion(purchase, visit) ==
  IF ~isNaN(purchase) /\ ~isNaN(visit)
  THEN Num(CeilDiv(purchase.n - visit.n, MsPerDay))
  ELSE Null

---------------------------------------------------------------------------
(* processedData, part 4: why a client did not convert *)

(* faulty variant: a refunded purchase is given no reason *)
saleReasonsWithoutRefund(sale, visit) ==
  (IF Leq(saleValue(sale), Num(0)) THEN <<"Zero or negative sale value">> ELSE <<>>)
  \o (IF includes(product(sale), T_TwoForOne) THEN <<"Excluded product (2 For 1)">> ELSE <<>>)
  \o (IF category(sale) = T_Retail THEN <<"Retail category excluded">> ELSE <<>>)
  \o (IF Lt(saleDate(sale), visit) THEN <<"Purchase before first visit">> ELSE <<>>)

(* the reasons one matching row pushes, in the order of the five tests *)
saleReasons(sale, visit) ==
  (IF Leq(saleValue(sale), Num(0)) THEN <<"Zero or negative sale value">> ELSE <<>>)
  \o (IF includes(product(sale), T_TwoForOne) THEN <<"Excluded product (2 For 1)">> ELSE <<>>)
  \o (IF category(sale) = T_Retail THEN <<"Retail category excluded">> ELSE <<>>)
  \o (IF Lt(saleDate(sale), visit) THEN <<"Purchase before first visit">> ELSE <<>>)
  \o (IF StrictEq(sale["Refunded"], Str(T_YES)) THEN <<"Purchase was refunded">> ELSE <<>>)

RECURSIVE reasons(_, _, _)
reasons(sales, matching, visit) ==
  IF matching = <<>> THEN <<>>
  ELSE saleReasons(sales[Head(matching)], visit) \o reasons(sales, Tail(matching), visit)

(* conversionDetails is a template with its holes: `text` names the        *)
(* template, `reasons` are the texts joined with ', ', and days, product   *)
(* and value are the values interpolated into the converted template       *)
convertedDetails(days, prod, value) ==
  [text |-> "Converted after ${days} days with \"${product}\" for ${value}",
   reasons |-> <<>>,
   days |-> Or(days, Num(0)), product |-> prod, value |-> Or(value, Num(0))]

(* faulty variant: the text is chosen by the reasons alone *)
notConvertedDetailsByReasons(sales, matching, visit) ==
  LET rs == reasons(sales, matching, visit)
      text == IF Len(rs) > 0 THEN "Not converted: ${reasons}"
              ELSE "No purchase records found for this client"
  IN  [text |-> text, reasons |-> rs,
       days |-> Null, product |-> Null, value |-> Null]

notConvertedDetails(sales, matching, visit) ==
  LET rs == reasons(sales, matching, visit)
      text == IF matching = <<>> THEN "No purchase records found for this client"
              ELSE IF Len(rs) > 0 THEN "Not converted: ${reasons}"
              ELSE "Has purchases but none meet conversion criteria"
  IN  [text |-> text, reasons |-> rs,
       days |-> Null, product |-> Null, value |-> Null]

---------------------------------------------------------------------------
(* processedData, part 5: one ProcessedClient per client row *)
processClient(client, index, sales) ==
  LET mail     == email(client)
      id       == memberID(client, index)
      visit    == visitDate(client)
      matching == matchingSales(sales, mail, id)
      valid    == validSales(sales, matching, visit)
      isConv   == Len(valid) > 0
      first    == sales[sortedSales(sales, valid)[1]]
      days     == daysToConversion(saleDate(first), visit)
  IN  [memberID |-> id,
       firstName |-> firstName(client),
       lastName |-> lastName(client),
       email |-> mail,
       firstVisitDate |-> firstVisitDate(client),
       firstVisitLocation |-> firstVisitLocation(client),
       membershipUsed |-> membershipUsed(client),
       teacher |-> teacher(client),
       firstPurchaseDate |-> IF isConv THEN firstPurchaseDate(first) ELSE Null,
       firstPurchaseProduct |-> IF isConv THEN firstPurchaseProduct(first) ELSE Null,
       firstPurchaseValue |-> IF isConv THEN firstPurchaseValue(first) ELSE Null,
       conversionStatus |-> IF isConv THEN "converted" ELSE "not_converted",
       conversionDetails |->
         IF isConv
         THEN convertedDetails(days, firstPurchaseProduct(first), firstPurchaseValue(first))
         ELSE notConvertedDetails(sales, matching, visit),
       daysToConversion |-> IF isConv THEN days ELSE Null,
       validationErrors |-> fieldErrors(client) \o negativeErrors(sales, matching)]

(* the positions of the client rows that are not skipped as 'All Trainers' *)
keptClients(clients) ==
  LET Keep(i) == ~skipAllTrainers(clients[i])
  IN  SelectSeq([i \in 1..Len(clients) |-> i], Keep)

(* a prop that is not an array: undefined, null or another value without   *)
(* the array methods                                                       *)
NotAnArray == (0 :> Undefined)

isArray(v) == 0 \notin DOMAIN v

(* a TypeError escapes the forEach callback of some client row: from the   *)
(* teacher cell, from salesData.filter when salesData is not an array, or  *)
(* from a cell of a matching sale                                          *)
clientThrows(client, index, sales) ==
  \/ teacherThrows(client)
  \/ /\ ~skipAllTrainers(client)
     /\ ~isArray(sales)
  \/ /\ ~skipAllTrainers(client)
     /\ isArray(sales)
     /\ LET matching == matchingSales(sales, email(client), memberID(client, index))
        IN  \E k \in 1..Len(matching) : saleThrows(sales[matching[k]])

processedDataThrows(clients, sales) ==
  /\ isArray(clients)
  /\ \E i \in 1..Len(clients) : clientThrows(clients[i], i - 1, sales)

(* the array processedData returns when no callback throws *)
processedData(clients, sales) ==
  IF ~isArray(clients) \/ Len(clients) = 0 THEN <<>>
  ELSE LET kept == keptClients(clients)
       IN  [k \in 1..Len(kept) |-> processClient(clients[kept[k]], kept[k] - 1, sales)]

---------------------------------------------------------------------------
(* The sort of filteredAndSortedData by the column the table starts with,  *)
(* firstVisitDate, in descending order.  The comparator returns            *)
(* valueB - valueA of the two getTime() values; when a date does not parse *)
(* this is NaN, which sort takes as 0.                                     *)
compareByFirstVisitDate(a, b) ==
  LET valueA == DateTime(a.firstVisitDate)
      valueB == DateTime(b.firstVisitDate)
  IN  IF isNaN(valueA) \/ isNaN(valueB) THEN 0 ELSE valueB.n - valueA.n

RECURSIVE insertResult(_, _)
insertResult(sorted, result) ==
  IF sorted = <<>> THEN <<result>>
  ELSE IF compareByFirstVisitDate(Head(sorted), result) <= 0
       THEN <<Head(sorted)>> \o insertResult(Tail(sorted), result)
       ELSE <<result>> \o sorted

RECURSIVE sortedByFirstVisitDate(_)
sortedByFirstVisitDate(results) ==
  IF results = <<>> THEN <<>>
  ELSE insertResult(sortedByFirstVisitDate(SubSeq(results, 1, Len(results) - 1)),
                    results[Len(results)])

(* the orders of an array *)
OrdersOf(results) ==
  { [i \in 1..Len(results) |-> results[p[i]]] :
      p \in { q \in [1..Len(results) -> 1..Len(results)] :
                \A i, j \in 1..Len(results) : q[i] = q[j] => i = j } }

(* the arrays filtered.sort(...) can leave: the stable sort when every     *)
(* date parses; with a date that does not parse the comparator is not a    *)
(* consistent order and the result is any order of the array               *)
filteredAndSortedData(results) ==
  IF \E i \in 1..Len(results) : isNaN(DateTime(results[i].firstVisitDate))
  THEN OrdersOf(results)
  ELSE {sortedByFirstVisitDate(results)}

---------------------------------------------------------------------------
(* Summaries.  A rate or an average is a quotient of two integers, kept as *)
(* numerator and denominator; a division by 0 gives NaN (0 / 0) or an      *)
(* infinity, as it does in JavaScript.                                     *)
Whole(k) == [t |-> "number", num |-> k, den |-> 1]

Quotient(a, b) ==
  IF b # 0 THEN [t |-> "number", num |-> a, den |-> b]
  ELSE IF a = 0 THEN [t |-> "NaN", num |-> 0, den |-> 1]
  ELSE [t |-> "Infinity", num |-> a, den |-> 1]

RECURSIVE sumOf(_)
sumOf(values) ==
  IF values = <<>> THEN 0 ELSE Head(values) + sumOf(Tail(values))

(* faulty variant: the division is made whatever the total *)
ratePercentUnguarded(count, total) ==
  LET q == Quotient(count, total) IN [q EXCEPT !.num = q.num * 100]

(* total > 0 ? (count / total) * 100 : 0 *)
ratePercent(count, total) ==
  IF total > 0
  THEN LET q == Quotient(count, total) IN [q EXCEPT !.num = q.num * 100]
  ELSE Whole(0)

(* arr.reduce((sum, c, _, arr) => sum + value(c) / arr.length, 0): the     *)
(* initial value 0 when arr is empty, else the sum of the values over the  *)
(* length                                                                  *)
averageByReduce(values) ==
  IF values = <<>> THEN Whole(0) ELSE Quotient(sumOf(values), Len(values))

(* x || 0 for a quotient x: NaN and 0 give 0 *)
orZero(q) == IF q.t = "NaN" \/ (q.t = "number" /\ q.num = 0) THEN Whole(0) ELSE q

(* item.field || 0, as an integer; the cells summed are numbers, null or absent *)
numberOrZero(v) == Or(v, Num(0)).n

countWhere(seq, Test(_)) == Len(SelectSeq(seq, Test))

(* summaryStats of the conversion table *)
summaryStats(results) ==
  LET IsConverted(c) == c.conversionStatus = "converted"
      HasDays(c)     == ~StrictEq(c.daysToConversion, Null)
      HasErrors(c)   == Len(c.validationErrors) > 0
      total          == Len(results)
      converted      == countWhere(results, IsConverted)
      withDays       == SelectSeq(results, HasDays)
  IN  [total |-> total,
       converted |-> converted,
       notConverted |-> total - converted,
       conversionRate |-> ratePercent(converted, total),
       totalRevenue |->
         sumOf([k \in 1..Len(results) |-> numberOrZero(results[k].firstPurchaseValue)]),
       avgDaysToConversion |->
         averageByReduce([k \in 1..Len(withDays) |-> numberOrZero(withDays[k].daysToConversion)]),
       dataQualityIssues |-> countWhere(results, HasErrors)]

---------------------------------------------------------------------------
(* EnhancedSummaryFooter: calculateSummaryMetrics over the data prop *)
ItemColumns ==
  { "teacherName", "newClients", "retainedClients", "convertedClients",
    "totalRevenue", "conversionRate", "conversionStatus", "daysToConversion",
    "purchaseValue", "retentionStatus", "visitsPostTrial" }

T_converted == <<"c","o","n","v","e","r","t","e","d">>

T_retained == <<"r","e","t","a","i","n","e","d">>

T_NA == <<"N","/","A">>

(* data.reduce((sum, item) => sum + (item[field] || 0), 0) *)
totalOf(items, field) == sumOf([k \in 1..Len(items) |-> numberOrZero(items[k][field])])

(* (a, b) => (b.conversionRate || 0) - (a.conversionRate || 0) *)
compareByConversionRate(a, b) ==
  numberOrZero(b["conversionRate"]) - numberOrZero(a["conversionRate"])

RECURSIVE insertItem(_, _)
insertItem(sorted, item) ==
  IF sorted = <<>> THEN <<item>>
  ELSE IF compareByConversionRate(Head(sorted), item) <= 0
       THEN <<Head(sorted)>> \o insertItem(Tail(sorted), item)
       ELSE <<item>> \o sorted

(* data.sort(...) of the performance branch: it sorts the prop in place *)
RECURSIVE sortedByConversionRate(_)
sortedByConversionRate(items) ==
  IF items = <<>> THEN <<>>
  ELSE insertItem(sortedByConversionRate(SubSeq(items, 1, Len(items) - 1)), items[Len(items)])

performanceMetrics(items) ==
  LET totalNewClients == totalOf(items, "newClients")
      totalRetained   == totalOf(items, "retainedClients")
      totalConverted  == totalOf(items, "convertedClients")
      totalRevenue    == totalOf(items, "totalRevenue")
  IN  [totalRecords |-> Len(items),
       totalNewClients |-> totalNewClients,
       totalRetained |-> totalRetained,
       totalConverted |-> totalConverted,
       totalRevenue |-> totalRevenue,
       avgRetentionRate |-> ratePercent(totalRetained, totalNewClients),
       avgConversionRate |-> ratePercent(totalConverted, totalNewClients),
       avgRevenuePerClient |->
         IF totalConverted > 0 THEN Quotient(totalRevenue, totalConverted) ELSE Whole(0),
       topPerformer |-> Or(sortedByConversionRate(items)[1]["teacherName"], Str(T_NA))]

(* faulty variant: the clients not converted are counted by their label *)
conversionMetricsByLabel(items) ==
  LET IsConverted(item) == StrictEq(item["conversionStatus"], Str(T_converted))
      IsNot(item) == StrictEq(item["conversionStatus"], Str(<<"n","o","t","_">> \o T_converted))
      Timed(item) == IsConverted(item) /\ Truthy(item["daysToConversion"])
      timed == SelectSeq(items, Timed)
  IN  [totalRecords |-> Len(items),
       convertedCount |-> countWhere(items, IsConverted),
       notConvertedCount |-> countWhere(items, IsNot),
       conversionRate |-> ratePercent(countWhere(items, IsConverted), Len(items)),
       avgConversionTime |->
         orZero(averageByReduce(
           [k \in 1..Len(timed) |-> numberOrZero(timed[k]["daysToConversion"])])),
       totalRevenue |-> totalOf(items, "purchaseValue")]

conversionMetrics(items) ==
  LET IsConverted(item) == StrictEq(item["conversionStatus"], Str(T_converted))
      Timed(item) == IsConverted(item) /\ Truthy(item["daysToConversion"])
      convertedCount == countWhere(items, IsConverted)
      timed == SelectSeq(items, Timed)
  IN  [totalRecords |-> Len(items),
       convertedCount |-> convertedCount,
       notConvertedCount |-> Len(items) - convertedCount,
       conversionRate |-> ratePercent(convertedCount, Len(items)),
       avgConversionTime |->
         orZero(averageByReduce(
           [k \in 1..Len(timed) |-> numberOrZero(timed[k]["daysToConversion"])])),
       totalRevenue |-> totalOf(items, "purchaseValue")]

retentionMetrics(items) ==
  LET IsRetained(item) == StrictEq(item["retentionStatus"], Str(T_retained))
      Visited(item) == Truthy(item["visitsPostTrial"])
      retainedCount == countWhere(items, IsRetained)
      visited == SelectSeq(items, Visited)
  IN  [totalRecords |-> Len(items),
       retainedCount |-> retainedCount,
       notRetainedCount |-> Len(items) - retainedCount,
       retentionRate |-> ratePercent(retainedCount, Len(items)),
       avgVisitsPostTrial |->
         orZero(averageByReduce(
           [k \in 1..Len(visited) |-> numberOrZero(visited[k]["visitsPostTrial"])]))]

(* the default branch; additionalMetrics is left at its default, {} *)
generalMetrics(items) == [totalRecords |-> Len(items)]

(* the switch on the type prop *)
calculateSummaryMetrics(items, kind) ==
  CASE kind = "performance" -> performanceMetrics(items)
    [] kind = "conversion" -> conversionMetrics(items)
    [] kind = "retention" -> retentionMetrics(items)
    [] OTHER -> generalMetrics(items)

---------------------------------------------------------------------------
(* The rows the arrays are drawn from *)
E_Lower == <<"e","@","x",".","c","o","m">>

E_Upper == <<"E","@","x",".","c","o","m">>

E_Other == <<"o","@","x",".","c","o","m">>

(* Scenario A's client: e@x.com, member M1, first visit 2024-01-01 *)
C_Eve ==
  Row(ClientColumns,
      ("Email" :> Str(E_Lower)) @@
      ("Member ID" :> Str(<<"M","1">>)) @@
      ("First name" :> Str(<<"E","v","e">>)) @@
      ("Last name" :> Str(<<"A">>)) @@
      ("First visit at" :> Str(D_20240101)) @@
      ("First visit location" :> Str(<<"S","t","u","d","i","o"," ","1">>)) @@
      ("Teacher" :> Str(<<"A","n","n">>)))

(* a second row with the e-mail of C_Eve and other fields, visiting at 06:00 *)
C_Dup ==
  Row(ClientColumns,
      ("Email" :> Str(E_Lower)) @@
      ("Member ID" :> Str(<<"M","2">>)) @@
      ("First name" :> Str(<<"D","u","p">>)) @@
      ("First visit at" :> Str(D_20240101T06)) @@
      ("Teacher" :> Str(<<"B","o","b">>)))

(* the e-mail in another letter case, the synonym columns, an unparseable date *)
C_BadDate ==
  Row(ClientColumns,
      ("email" :> Str(E_Upper)) @@
      ("firstName" :> Str(<<"B","a","d">>)) @@
      ("date" :> Str(D_Garbage)) @@
      ("teacher" :> Str(<<"A","n","n">>)))

(* a row with no cell at all *)
C_Blank ==
  Row(ClientColumns, <<>>)

(* the report's aggregate row *)
C_AllTrainers ==
  Row(ClientColumns,
      ("Email" :> Str(E_Other)) @@
      ("First name" :> Str(<<"A","l","l">>)) @@
      ("First visit at" :> Str(D_20240101)) @@
      ("Teacher" :> Str(<<"A","l","l"," ","T","r","a","i","n","e","r","s">>)))

(* a row whose Teacher cell holds a number *)
C_NumTeacher ==
  Row(ClientColumns,
      ("Email" :> Str(E_Other)) @@
      ("First name" :> Str(<<"N","u","m">>)) @@
      ("First visit at" :> Str(D_20240101)) @@
      ("Teacher" :> Num(7)))

(* the aggregate row of a report that names the column teacher *)
C_AllTrainersSynonym ==
  Row(ClientColumns,
      ("email" :> Str(E_Other)) @@
      ("firstName" :> Str(<<"A","l","l">>)) @@
      ("date" :> Str(D_20240101)) @@
      ("teacher" :> Str(<<"A","l","l"," ","T","r","a","i","n","e","r","s">>)))

ClientRows == { C_Eve, C_Dup, C_BadDate, C_Blank, C_AllTrainers, C_NumTeacher }

(* the client rows of a report whose aggregate row names the column either way *)
LabelledRows == { C_Eve, C_BadDate, C_Blank, C_AllTrainers, C_AllTrainersSynonym }

(* Scenario A's purchase: same e-mail, 2024-01-05, 1000, class, not refunded *)
S_Valid ==
  Row(SaleColumns,
      ("Customer email" :> Str(E_Lower)) @@
      ("Date" :> Str(D_20240105)) @@
      ("Sale value" :> Str(<<"1","0","0","0">>)) @@
      ("Category" :> Str(<<"c","l","a","s","s">>)) @@
      ("Item" :> Str(<<"C","l","a","s","s"," ","P","a","s","s">>)) @@
      ("Refunded" :> Str(<<"N","O">>)))

(* same e-mail and same date as S_Valid, under the synonym columns, a numeric value *)
S_Tie ==
  Row(SaleColumns,
      ("email" :> Str(E_Lower)) @@
      ("date" :> Str(D_20240105)) @@
      ("value" :> Num(500)) @@
      ("category" :> Str(<<"m","e","m","b","e","r","s","h","i","p">>)) @@
      ("product" :> Str(<<"U","n","l","i","m","i","t","e","d">>)))

(* Scenario B: the product is a 2 For 1 pass *)
S_TwoForOne ==
  Row(SaleColumns,
      ("Customer email" :> Str(E_Lower)) @@
      ("Date" :> Str(D_20240105)) @@
      ("Sale value" :> Str(<<"1","0","0","0">>)) @@
      ("Category" :> Str(<<"c","l","a","s","s">>)) @@
      ("Item" :> Str(<<"2"," ","F","o","r"," ","1"," ","P","a","s","s">>)) @@
      ("Refunded" :> Str(<<"N","O">>)))

(* Scenario C: bought on 2023-12-31 *)
S_Before ==
  Row(SaleColumns,
      ("Customer email" :> Str(E_Lower)) @@
      ("Date" :> Str(D_20231231)) @@
      ("Sale value" :> Str(<<"1","0","0","0">>)) @@
      ("Category" :> Str(<<"c","l","a","s","s">>)) @@
      ("Item" :> Str(<<"C","l","a","s","s"," ","P","a","s","s">>)) @@
      ("Refunded" :> Str(<<"N","O">>)))

(* Scenario D: value -50 *)
S_Negative ==
  Row(SaleColumns,
      ("Customer email" :> Str(E_Lower)) @@
      ("Date" :> Str(D_20240105)) @@
      ("Sale value" :> Str(<<"-","5","0">>)) @@
      ("Category" :> Str(<<"c","l","a","s","s">>)) @@
      ("Item" :> Str(<<"C","l","a","s","s"," ","P","a","s","s">>)) @@
      ("Refunded" :> Str(<<"N","O">>)))

(* value 0 *)
S_Zero ==
  Row(SaleColumns,
      ("Customer email" :> Str(E_Lower)) @@
      ("Date" :> Str(D_20240105)) @@
      ("Sale value" :> Str(<<"0">>)) @@
      ("Category" :> Str(<<"c","l","a","s","s">>)) @@
      ("Item" :> Str(<<"C","l","a","s","s"," ","P","a","s","s">>)) @@
      ("Refunded" :> Str(<<"N","O">>)))

(* category Retail; the member ID is the text the code gives, in place of *)
(* a member ID, to the second client row when that row has none           *)
S_Retail ==
  Row(SaleColumns,
      ("Customer email" :> Str(E_Lower)) @@
      ("memberID" :> Str(T_ClientPrefix \o <<"1">>)) @@
      ("Date" :> Str(D_20240105)) @@
      ("Sale value" :> Str(<<"1","0","0","0">>)) @@
      ("Category" :> Str(<<"R","e","t","a","i","l">>)) @@
      ("Item" :> Str(<<"C","l","a","s","s"," ","P","a","s","s">>)) @@
      ("Refunded" :> Str(<<"N","O">>)))

(* refunded *)
S_Refunded ==
  Row(SaleColumns,
      ("Customer email" :> Str(E_Lower)) @@
      ("Date" :> Str(D_20240105)) @@
      ("Sale value" :> Str(<<"1","0","0","0">>)) @@
      ("Category" :> Str(<<"c","l","a","s","s">>)) @@
      ("Item" :> Str(<<"C","l","a","s","s"," ","P","a","s","s">>)) @@
      ("Refunded" :> Str(T_YES)))

(* a value with no digit in it *)
S_NoValue ==
  Row(SaleColumns,
      ("Customer email" :> Str(E_Lower)) @@
      ("Date" :> Str(D_20240105)) @@
      ("Sale value" :> Str(D_Garbage)) @@
      ("Category" :> Str(<<"c","l","a","s","s">>)) @@
      ("Item" :> Str(<<"C","l","a","s","s"," ","P","a","s","s">>)) @@
      ("Refunded" :> Str(<<"N","O">>)))

(* a date that does not parse *)
S_BadDate ==
  Row(SaleColumns,
      ("Customer email" :> Str(E_Lower)) @@
      ("Date" :> Str(D_Garbage)) @@
      ("Sale value" :> Str(<<"1","0","0","0">>)) @@
      ("Category" :> Str(<<"c","l","a","s","s">>)) @@
      ("Item" :> Str(<<"C","l","a","s","s"," ","P","a","s","s">>)) @@
      ("Refunded" :> Str(<<"N","O">>)))

(* the e-mail of C_Eve in another letter case, member M1, bought for     *)
(* $1,000 at the instant of C_Eve's visit                                  *)
S_UpperEmail ==
  Row(SaleColumns,
      ("Paying Customer email" :> Str(E_Upper)) @@
      ("Member ID" :> Str(<<"M","1">>)) @@
      ("Date" :> Str(D_20240101)) @@
      ("Sale value" :> Str(<<"$","1",",","0","0","0">>)) @@
      ("Category" :> Str(<<"c","l","a","s","s">>)) @@
      ("Item" :> Str(<<"I","n","t","r","o"," ","P","a","c","k">>)) @@
      ("Refunded" :> Str(<<"N","O">>)))

(* a Category cell that holds a number *)
S_NumCategory ==
  Row(SaleColumns,
      ("Customer email" :> Str(E_Lower)) @@
      ("Date" :> Str(D_20240105)) @@
      ("Sale value" :> Str(<<"1","0","0","0">>)) @@
      ("Category" :> Num(5)) @@
      ("Item" :> Str(<<"C","l","a","s","s"," ","P","a","s","s">>)) @@
      ("Refunded" :> Str(<<"N","O">>)))

SaleRows ==
  { S_Valid,
    S_Tie,
    S_TwoForOne,
    S_Before,
    S_Negative,
    S_Zero,
    S_NoValue,
    S_Retail,
    S_Refunded,
    S_BadDate,
    S_UpperEmail,
    S_NumCategory }

(* The items of the data prop of the summary footer: a converted and       *)
(* retained client, a client neither converted nor retained and without    *)
(* visits, a client converted on the day of the visit, and two teachers     *)
I_Converted ==
  Row(ItemColumns,
      ("conversionStatus" :> Str(T_converted)) @@
      ("daysToConversion" :> Num(4)) @@
      ("purchaseValue" :> Num(1000)) @@
      ("retentionStatus" :> Str(T_retained)) @@
      ("visitsPostTrial" :> Num(3)))

I_NotConverted ==
  Row(ItemColumns,
      ("conversionStatus" :> Str(<<"n","o","t","_">> \o T_converted)) @@
      ("daysToConversion" :> Null) @@
      ("retentionStatus" :> Str(<<"n","o","t","_">> \o T_retained)) @@
      ("visitsPostTrial" :> Num(0)))

I_SameDay ==
  Row(ItemColumns,
      ("conversionStatus" :> Str(T_converted)) @@
      ("daysToConversion" :> Num(0)) @@
      ("purchaseValue" :> Num(500)))

I_Ann ==
  Row(ItemColumns,
      ("teacherName" :> Str(<<"A","n","n">>)) @@
      ("newClients" :> Num(4)) @@
      ("retainedClients" :> Num(2)) @@
      ("convertedClients" :> Num(1)) @@
      ("totalRevenue" :> Num(1000)) @@
      ("conversionRate" :> Num(25)))

I_Bob ==
  Row(ItemColumns,
      ("teacherName" :> Str(<<"B","o","b">>)) @@
      ("newClients" :> Num(0)) @@
      ("retainedClients" :> Num(0)) @@
      ("convertedClients" :> Num(0)) @@
      ("totalRevenue" :> Num(0)) @@
      ("conversionRate" :> Num(0)))

Items == { I_Converted, I_NotConverted, I_SameDay, I_Ann, I_Bob }

FooterTypes == { "performance", "conversion", "retention", "general" }

(* the arrays of at most n rows, no row twice *)
Arrays(rows, n) ==
  { a \in UNION { [1..k -> rows] : k \in 0..n } :
      \A i, j \in 1..Len(a) : a[i] = a[j] => i = j }

---------------------------------------------------------------------------
(* The Index page: a run of handleProcessFiles and what it awaits *)
FileKinds == { "new", "bookings", "payments" }

StartingProgress == [progress |-> 0, currentStep |-> "Starting processing..."]

ParsingProgress == [progress |-> 10, currentStep |-> "Parsing CSV files..."]

(* faulty variant: the bar is started again for the second stage *)
ProcessingProgressRestarted == [progress |-> 0, currentStep |-> "Processing data..."]

ProcessingProgress == [progress |-> 30, currentStep |-> "Processing data..."]

FinalizingProgress == [progress |-> 100, currentStep |-> "Finalizing..."]

(* what a run meets: parseCSV and processData return or throw, and the     *)
(* progress update works or throws at one of its call sites                *)
ReporterSites == { "starting", "parsing", "processing", "callback", "finalizing" }

Envs ==
  [parseCSV : {"returns", "throws"},
   processData : {"returns", "throws"},
   reporter : {"works"} \union ReporterSites]

WorkingEnv == [parseCSV |-> "returns", processData |-> "returns", reporter |-> "works"]

(* the percentages processData reports through the callback: the stages    *)
(* between the handler's 30 and its final 100, never going back            *)
ReportPercents == { 30, 60, 90 }

ReportPlans ==
  { plan \in UNION { [1..k -> ReportPercents] : k \in 0..MaxReports } :
      \A i, j \in 1..Len(plan) : i < j => plan[i] <= plan[j] }

(* a progress update as the progress UI receives it, with whether the      *)
(* results were in the page's state by then                                *)
Emission(update, stored) == [progress |-> update.progress, stored |-> stored]

(* the components before they are given anything *)
IdleTable ==
  /\ newClientData = <<>>
  /\ salesData = <<>>
  /\ pc = "props"
  /\ processed = <<>>

(* the provider selected by default *)
T_openai == <<"o","p","e","n","a","i">>

(* the modal before it is opened: nothing saved *)
IdleModal ==
  /\ selectedProvider = T_openai
  /\ apiKey = <<>>
  /\ selectedModel = <<>>
  /\ aiSettings = Null

(* an invocation that has not started, and what its awaits will do *)
FreeRun == [at |-> "free", parseCSV |-> "returns", processData |-> "returns"]

IdleRuns == runs = [r \in 1..MaxRuns |-> FreeRun]

(* the page's data before anything is processed or loaded *)
NothingStored == [processed |-> Null, filtered |-> Null]

IdleStorage ==
  /\ processedTeacherData = <<>>
  /\ filteredData = <<>>
  /\ storage = NothingStored

NoFilters == [period |-> {}, teacher |-> {}, location |-> {}]

IdleFilter ==
  /\ barData = <<>>
  /\ selectedFilters = NoFilters
  /\ reported = <<>>

IdleQuery ==
  /\ query = <<>>
  /\ queryProcessing = FALSE
  /\ responses = <<>>
  /\ accepted = <<>>
  /\ queryRows = <<>>

IdleRest == IdleStorage /\ IdleFilter /\ IdleQuery

IdleSide == IdleModal /\ IdleRuns /\ IdleRest

IdleFooter ==
  /\ data = <<>>
  /\ type = "general"
  /\ footerPc = "props"
  /\ metrics = <<>>

IdlePage ==
  /\ files = {}
  /\ isProcessing = FALSE
  /\ progress = 0
  /\ currentStep = ""
  /\ pageData = "none"
  /\ resultsVisible = FALSE
  /\ hpc = "idle"
  /\ env = WorkingEnv
  /\ reports = <<>>
  /\ emitted = <<>>

Init ==
  /\ newClientData \in Arrays(ClientRows, MaxClients)
  /\ salesData \in Arrays(SaleRows, MaxSales)
  /\ pc = "props"
  /\ processed = <<>>
  /\ stats = <<>>
  /\ IdleFooter
  /\ IdlePage
  /\ IdleSide

(* The component is handed the two arrays as props (pc = "props"); the     *)
(* render then evaluates the processedData memo, which returns its array   *)
(* (pc = "done") or lets a TypeError escape (pc = "threw").                *)
ProcessedData ==
  /\ pc = "props"
  /\ IF processedDataThrows(newClientData, salesData)
     THEN /\ pc' = "threw"
          /\ processed' = <<>>
     ELSE /\ pc' = "done"
          /\ processed' = processedData(newClientData, salesData)
  /\ UNCHANGED <<newClientData, salesData, stats, footerVars, pageVars, sideVars>>

Next == ProcessedData

Spec == Init /\ [][Next]_vars

(* the same component given a report with aggregate rows and a few payments *)
InitLabels ==
  /\ newClientData \in Arrays(LabelledRows, MaxClients)
  /\ salesData \in Arrays({S_Valid, S_Tie, S_Retail, S_UpperEmail}, MaxSales)
  /\ pc = "props"
  /\ processed = <<>>
  /\ stats = <<>>
  /\ IdleFooter
  /\ IdlePage
  /\ IdleSide

SpecLabels == InitLabels /\ [][Next]_vars

(* a client of whom only the name and the visit are known *)
C_NoIdentifier ==
  Row(ClientColumns,
      ("Email" :> Str(<<>>)) @@
      ("First name" :> Str(<<"Z","e","d">>)) @@
      ("First visit at" :> Str(D_20240101)))

(* a payment exported with an empty e-mail cell and no member ID *)
S_EmptyEmail ==
  Row(SaleColumns,
      ("Customer email" :> Str(<<>>)) @@
      ("Date" :> Str(D_20240105)) @@
      ("Sale value" :> Str(<<"1","0","0","0">>)) @@
      ("Category" :> Str(<<"c","l","a","s","s">>)) @@
      ("Item" :> Str(<<"C","l","a","s","s"," ","P","a","s","s">>)) @@
      ("Refunded" :> Str(<<"N","O">>)))

(* a payment with no e-mail column and no member ID column *)
S_NoIdentifier ==
  Row(SaleColumns,
      ("Date" :> Str(D_20240105)) @@
      ("Sale value" :> Str(<<"1","0","0","0">>)) @@
      ("Item" :> Str(<<"C","l","a","s","s"," ","P","a","s","s">>)))

(* the same component given clients and payments without identifiers *)
InitBlank ==
  /\ newClientData \in Arrays({C_Eve, C_Blank, C_NoIdentifier}, MaxClients)
  /\ salesData \in Arrays({S_Valid, S_Tie, S_EmptyEmail, S_NoIdentifier}, MaxSales)
  /\ pc = "props"
  /\ processed = <<>>
  /\ stats = <<>>
  /\ IdleFooter
  /\ IdlePage
  /\ IdleSide

SpecBlank == InitBlank /\ [][Next]_vars

(* the same component given props that may not be arrays *)
InitProps ==
  /\ newClientData \in Arrays({C_Eve, C_BadDate, C_AllTrainers}, MaxClients) \union {NotAnArray}
  /\ salesData \in Arrays({S_Valid, S_Tie, S_Retail, S_UpperEmail}, MaxSales) \union {NotAnArray}
  /\ pc = "props"
  /\ processed = <<>>
  /\ stats = <<>>
  /\ IdleFooter
  /\ IdlePage
  /\ IdleSide

SpecProps == InitProps /\ [][Next]_vars

---------------------------------------------------------------------------
(* The summaries: the table's summaryStats and the footer's metrics *)
InitSummary ==
  /\ newClientData \in Arrays({C_Eve, C_Dup, C_BadDate}, MaxClients)
  /\ salesData \in Arrays({S_Valid, S_UpperEmail}, MaxSales)
  /\ pc = "props"
  /\ processed = <<>>
  /\ stats = <<>>
  /\ data \in Arrays(Items, MaxItems)
  /\ type \in FooterTypes
  /\ footerPc = "props"
  /\ metrics = <<>>
  /\ IdlePage
  /\ IdleSide

(* the filteredAndSortedData memo with the state the table starts with: no *)
(* search term, status 'all', sorted by firstVisitDate, descending.  With  *)
(* no filter applied the array it sorts is the array processedData         *)
(* returned.                                                               *)
FilteredAndSortedData ==
  /\ pc = "done"
  /\ pc' = "shown"
  /\ processed' \in filteredAndSortedData(processed)
  /\ UNCHANGED <<newClientData, salesData, stats, footerVars, pageVars, sideVars>>

(* the summaryStats memo, computed once processedData has returned *)
SummaryStats ==
  /\ pc \in {"done", "shown"}
  /\ stats = <<>>
  /\ stats' = <<summaryStats(processed)>>
  /\ UNCHANGED <<tableVars, footerVars, pageVars, sideVars>>

(* a render of the footer: nothing is computed for an empty data prop, and *)
(* the performance branch leaves the prop sorted                           *)
CalculateSummaryMetrics ==
  /\ footerPc = "props"
  /\ IF Len(data) = 0
     THEN /\ footerPc' = "empty"
          /\ UNCHANGED <<data, metrics>>
     ELSE /\ footerPc' = "rendered"
          /\ metrics' = <<calculateSummaryMetrics(data, type)>>
          /\ data' = IF type = "performance" THEN sortedByConversionRate(data) ELSE data
  /\ UNCHANGED <<tableVars, stats, type, pageVars, sideVars>>

NextSummary ==
  \/ ProcessedData
  \/ FilteredAndSortedData
  \/ SummaryStats
  \/ CalculateSummaryMetrics

SpecSummary == InitSummary /\ [][NextSummary]_vars

---------------------------------------------------------------------------
(* Vocabulary of the claims.  A result carries the profile of its client   *)
(* (email, memberID, firstVisitDate), so the claims are stated on the      *)
(* results and on the payment rows.                                        *)
Results == 1..Len(processed)

Sales == 1..Len(salesData)

NoRecordsText == "No purchase records found for this client"

GenericText == "Has purchases but none meet conversion criteria"

ReasonsText == "Not converted: ${reasons}"

EmailCells(sale) == { sale["Customer email"], sale["Paying Customer email"], sale["email"] }

MemberIDCells(sale) == { sale["Member ID"], sale["memberID"] }

SameEmail(r, sale) == r.email \in EmailCells(sale)

SameMemberID(r, sale) == r.memberID \in MemberIDCells(sale)

(* row j of salesData is among the rows kept for the client of r *)
IsCandidate(r, j) == saleMatches(salesData[j], r.email, r.memberID)

VisitTime(r) == DateTime(r.firstVisitDate)

(* the five predicates of a valid purchase, in the words of the claim *)
ValuePositive(sale) == saleValue(sale).t = "number" /\ saleValue(sale).n > 0

ProductIsTwoForOne(sale) == includes(toLowerCase(productCell(sale).s), T_TwoForOne)

CategoryIsRetail(sale) == toLowerCase(categoryCell(sale).s) = T_Retail

DateParsesAndNotBefore(r, sale) ==
  /\ saleDate(sale).t = "number"
  /\ VisitTime(r).t = "number"
  /\ saleDate(sale).n >= VisitTime(r).n

IsRefunded(sale) == sale["Refunded"] = Str(T_YES)

FivePredicates(r, sale) ==
  /\ ValuePositive(sale)
  /\ ~ProductIsTwoForOne(sale)
  /\ ~CategoryIsRetail(sale)
  /\ DateParsesAndNotBefore(r, sale)
  /\ ~IsRefunded(sale)

(* how many of the five predicates the purchase fails *)
FailedCount(r, sale) ==
  (IF ValuePositive(sale) THEN 0 ELSE 1)
  + (IF ProductIsTwoForOne(sale) THEN 1 ELSE 0)
  + (IF CategoryIsRetail(sale) THEN 1 ELSE 0)
  + (IF DateParsesAndNotBefore(r, sale) THEN 0 ELSE 1)
  + (IF IsRefunded(sale) THEN 1 ELSE 0)

ValidCandidates(r) ==
  { j \in Sales : IsCandidate(r, j) /\ FivePredicates(r, salesData[j]) }

Count(seq, x) == Cardinality({ i \in 1..Len(seq) : seq[i] = x })

---------------------------------------------------------------------------
(* C1: a payment row is a candidate purchase of a client as soon as one of *)
(* its e-mail cells equals the client's e-mail or one of its member ID     *)
(* cells equals the client's member ID; either key suffices, and a client  *)
(* with such a row is not reported as having no purchase records.          *)
C1_EitherKeyMakesCandidate ==
  pc = "done" =>
    \A k \in Results : \A j \in Sales :
      LET r == processed[k] IN
      (SameEmail(r, salesData[j]) \/ SameMemberID(r, salesData[j]))
        => /\ IsCandidate(r, j)
           /\ r.conversionDetails.text # NoRecordsText

(* one client is matched on the member ID alone and converted by that row, *)
(* another on the e-mail alone                                             *)
C1_Witness ==
  /\ pc = "done"
  /\ \E k \in Results : \E j \in Sales :
       /\ ~SameEmail(processed[k], salesData[j])
       /\ SameMemberID(processed[k], salesData[j])
       /\ processed[k].conversionStatus = "converted"
       /\ ValidCandidates(processed[k]) = {j}
  /\ \E k \in Results : \E j \in Sales :
       /\ SameEmail(processed[k], salesData[j])
       /\ ~SameMemberID(processed[k], salesData[j])
       /\ IsCandidate(processed[k], j)

(* C2: a candidate purchase passes the filter exactly when the five        *)
(* predicates hold (parsed value > 0, product without "2 for 1", category  *)
(* other than "retail", date parsed and not before the first visit, not    *)
(* refunded), and the client is converted exactly when one candidate does. *)
C2_ValidIffFivePredicates ==
  pc = "done" =>
    \A k \in Results :
      LET r == processed[k] IN
      /\ \A j \in Sales :
           IsCandidate(r, j) =>
             (validSale(salesData[j], VisitTime(r)) <=> FivePredicates(r, salesData[j]))
      /\ (r.conversionStatus = "converted") <=> (ValidCandidates(r) # {})

(* a client whose only candidate fails the refund predicate alone, and so  *)
(* is not converted                                                        *)
C2_Witness ==
  /\ pc = "done"
  /\ \E k \in Results : \E j \in Sales :
       /\ \A i \in Sales : IsCandidate(processed[k], i) <=> i = j
       /\ IsRefunded(salesData[j])
       /\ FailedCount(processed[k], salesData[j]) = 1
       /\ processed[k].conversionStatus = "not_converted"

(* the valid candidate with the earliest date, the first in input order   *)
(* among those of that date                                                *)
EarliestValid(r) ==
  LET valid == ValidCandidates(r) IN
  CHOOSE j \in valid :
    \A i \in valid :
      \/ saleDate(salesData[j]).n < saleDate(salesData[i]).n
      \/ saleDate(salesData[j]).n = saleDate(salesData[i]).n /\ j <= i

(* C3: a client is converted exactly when it has a valid candidate, and  *)
(* the first purchase reported (date, product, value) is the valid         *)
(* candidate with the earliest date, the earliest in the input order of    *)
(* the payment rows among those that share that date.                      *)
C3_FirstPurchaseIsEarliestThenInputOrder ==
  pc = "done" =>
    \A k \in Results :
      LET r == processed[k]
          valid == ValidCandidates(r)
      IN
      /\ (r.conversionStatus = "converted") <=> (valid # {})
      /\ valid # {} =>
           LET first == salesData[EarliestValid(r)] IN
           /\ r.firstPurchaseDate = firstPurchaseDate(first)
           /\ r.firstPurchaseProduct = productCell(first)
           /\ r.firstPurchaseValue = saleValue(first)

(* two valid candidates share the earliest date and differ in product: the *)
(* one that comes first in salesData is reported                           *)
C3_Witness ==
  /\ pc = "done"
  /\ \E k \in Results : \E i, j \in ValidCandidates(processed[k]) :
       /\ i < j
       /\ saleDate(salesData[i]) = saleDate(salesData[j])
       /\ productCell(salesData[i]) # productCell(salesData[j])
       /\ EarliestValid(processed[k]) = i
       /\ processed[k].firstPurchaseProduct = productCell(salesData[i])

(* the time from the first visit to the reported purchase *)
ElapsedMs(r) == DateTime(r.firstPurchaseDate).n - VisitTime(r).n

(* C4: for a converted client daysToConversion is the ceiling of           *)
(* (purchase date - first visit date) in days: 0 when both are the same    *)
(* instant, never negative, and 4 for a visit on 2024-01-01 and a purchase *)
(* on 2024-01-05.                                                          *)
C4_DaysIsCeilingOfElapsedDays ==
  pc = "done" =>
    \A k \in Results :
      LET r == processed[k]
          d == r.daysToConversion
      IN  r.conversionStatus = "converted" =>
            /\ d.t = "number"
            /\ DateTime(r.firstPurchaseDate).t = "number"
            /\ VisitTime(r).t = "number"
            /\ d.n >= 0
            /\ d.n * MsPerDay >= ElapsedMs(r)
            /\ (d.n - 1) * MsPerDay < ElapsedMs(r)
            /\ (ElapsedMs(r) = 0 => d.n = 0)
            /\ (r.firstVisitDate = Str(D_20240101) /\ r.firstPurchaseDate = Str(D_20240105)
                  => d.n = 4)

(* one client converts 3.75 days after the visit and gets 4, another at    *)
(* the instant of the visit and gets 0                                     *)
C4_Witness ==
  /\ pc = "done"
  /\ \E k \in Results :
       /\ processed[k].conversionStatus = "converted"
       /\ ElapsedMs(processed[k]) % MsPerDay # 0
       /\ processed[k].daysToConversion = Num(4)
  /\ \E k \in Results :
       /\ processed[k].conversionStatus = "converted"
       /\ ElapsedMs(processed[k]) = 0
       /\ processed[k].daysToConversion = Num(0)

NegativeText == "Negative sale value detected"

NegativeCandidates(r) ==
  { j \in Sales : /\ IsCandidate(r, j)
                  /\ saleValue(salesData[j]).t = "number"
                  /\ saleValue(salesData[j]).n < 0 }

(* C6: the client carries one negative-sale-value error per candidate      *)
(* purchase whose parsed value is < 0, whatever the other predicates say   *)
(* of that purchase, and no such error otherwise; the negative purchase    *)
(* does not stop the other candidates from converting the client.          *)
C6_NegativeValueFlaggedAndOthersEvaluated ==
  pc = "done" =>
    \A k \in Results :
      LET r == processed[k] IN
      /\ Count(r.validationErrors, NegativeText) = Cardinality(NegativeCandidates(r))
      /\ ValidCandidates(r) # {} => r.conversionStatus = "converted"

(* Scenario D with a second, valid purchase: converted and flagged *)
C6_Witness ==
  /\ pc = "done"
  /\ \E k \in Results :
       /\ NegativeCandidates(processed[k]) # {}
       /\ ValidCandidates(processed[k]) # {}
       /\ processed[k].conversionStatus = "converted"
       /\ Count(processed[k].validationErrors, NegativeText) = 1

---------------------------------------------------------------------------
(* Client profiles: the client rows whose teacher is not the aggregate     *)
(* label of the report, in input order                                     *)
T_AllTrainersLabel == <<"A","l","l"," ","T","r","a","i","n","e","r","s">>

IsAggregateRow(client) == teacher(client) = Str(T_AllTrainersLabel)

ClientProfiles ==
  LET Keep(i) == ~IsAggregateRow(newClientData[i])
  IN  SelectSeq([i \in 1..Len(newClientData) |-> i], Keep)

(* result k is the result of client row i *)
IsResultOf(k, i) ==
  /\ k \in Results
  /\ k \in 1..Len(ClientProfiles)
  /\ ClientProfiles[k] = i
  /\ processed[k].email = email(newClientData[i])
  /\ processed[k].firstName = firstName(newClientData[i])
  /\ processed[k].firstVisitDate = firstVisitDate(newClientData[i])

InvalidVisitText == "Invalid first visit date format"

HasUnparseableVisitDate(client) ==
  Truthy(firstVisitDate(client)) /\ DateTime(firstVisitDate(client)).t # "number"

(* C5: a client whose first visit date is present but does not parse gets  *)
(* the invalid-first-visit-date error, is never converted, and still       *)
(* appears in the output with exactly one not_converted result.            *)
C5_UnparseableVisitDateStillReported ==
  pc # "props" =>
    \A i \in 1..Len(newClientData) :
      (~IsAggregateRow(newClientData[i]) /\ HasUnparseableVisitDate(newClientData[i]))
        => /\ \E k \in Results : IsResultOf(k, i)
           /\ \A k \in Results :
                IsResultOf(k, i) =>
                  /\ processed[k].conversionStatus = "not_converted"
                  /\ Count(processed[k].validationErrors, InvalidVisitText) = 1

(* the part of C5 that the code keeps: whenever the computation returns,   *)
(* such a client has its one result, not converted and flagged             *)
UnparseableVisitDateReportedOnReturn ==
  pc = "done" =>
    \A i \in 1..Len(newClientData) :
      (~IsAggregateRow(newClientData[i]) /\ HasUnparseableVisitDate(newClientData[i]))
        => \E k \in Results :
             /\ IsResultOf(k, i)
             /\ processed[k].conversionStatus = "not_converted"
             /\ Count(processed[k].validationErrors, InvalidVisitText) = 1

(* C7: every client profile yields exactly one result, converted or        *)
(* not_converted, none is dropped or produced twice, and the results keep  *)
(* the input order of the clients.                                         *)
C7_OneResultPerClientInInputOrder ==
  pc # "props" =>
    /\ Len(processed) = Len(ClientProfiles)
    /\ \A k \in Results :
         /\ IsResultOf(k, ClientProfiles[k])
         /\ processed[k].conversionStatus \in {"converted", "not_converted"}

(* the part of C7 that the code keeps: the array processedData returns     *)
OneResultPerClientOnReturn ==
  pc = "done" =>
    /\ Len(processed) = Len(ClientProfiles)
    /\ \A k \in Results :
         /\ IsResultOf(k, ClientProfiles[k])
         /\ processed[k].conversionStatus \in {"converted", "not_converted"}

---------------------------------------------------------------------------
(* The normalized e-mail of the specification: trimmed and lower-cased *)
RECURSIVE TrimLeft(_)
TrimLeft(chars) ==
  IF chars # <<>> /\ Head(chars) = " " THEN TrimLeft(Tail(chars)) ELSE chars

RECURSIVE TrimRight(_)
TrimRight(chars) ==
  IF chars # <<>> /\ chars[Len(chars)] = " "
  THEN TrimRight(SubSeq(chars, 1, Len(chars) - 1))
  ELSE chars

NormalizedEmail(v) == toLowerCase(TrimRight(TrimLeft(String(v))))

(* the earliest client profile with the normalized e-mail of row i *)
FirstSeen(i) ==
  CHOOSE f \in 1..Len(newClientData) :
    /\ ~IsAggregateRow(newClientData[f])
    /\ NormalizedEmail(email(newClientData[f])) = NormalizedEmail(email(newClientData[i]))
    /\ \A g \in 1..(f - 1) :
         IsAggregateRow(newClientData[g])
         \/ NormalizedEmail(email(newClientData[g])) # NormalizedEmail(email(newClientData[i]))

(* C8: the results hold one entry per normalized e-mail, and its fields    *)
(* are those of the earliest client row with that e-mail.                  *)
C8_OneResultPerNormalizedEmail ==
  pc = "done" =>
    /\ \A k1, k2 \in Results :
         NormalizedEmail(processed[k1].email) = NormalizedEmail(processed[k2].email)
           => k1 = k2
    /\ \A i \in 1..Len(newClientData) :
         ~IsAggregateRow(newClientData[i]) =>
           \E k \in Results :
             /\ NormalizedEmail(processed[k].email) = NormalizedEmail(email(newClientData[i]))
             /\ processed[k].firstName = firstName(newClientData[FirstSeen(i)])
             /\ processed[k].firstVisitDate = firstVisitDate(newClientData[FirstSeen(i)])

(* C9: a payment row one of whose e-mail cells has the normalized e-mail   *)
(* of the client (it differs at most in letter case or in surrounding      *)
(* blanks) is a candidate purchase of that client.                         *)
C9_NormalizedEmailMakesCandidate ==
  pc = "done" =>
    \A k \in Results : \A j \in Sales :
      (\E c \in EmailCells(salesData[j]) :
          /\ c.t = "string"
          /\ NormalizedEmail(c) = NormalizedEmail(processed[k].email))
        => IsCandidate(processed[k], j)

---------------------------------------------------------------------------
ValueText == "Zero or negative sale value"

ProductText == "Excluded product (2 For 1)"

CategoryText == "Retail category excluded"

BeforeText == "Purchase before first visit"

RefundedText == "Purchase was refunded"

Candidates(r) == { j \in Sales : IsCandidate(r, j) }

Named(r, text) == Count(r.conversionDetails.reasons, text) > 0

(* C10: for a not-converted client with at least one candidate, every      *)
(* candidate contributes the reason of each predicate it failed, so the    *)
(* explanation always names at least one concrete reason.                  *)
C10_EveryFailedPredicateIsNamed ==
  pc = "done" =>
    \A k \in Results :
      LET r == processed[k] IN
      (r.conversionStatus = "not_converted" /\ Candidates(r) # {}) =>
        /\ r.conversionDetails.text = ReasonsText
        /\ Len(r.conversionDetails.reasons) > 0
        /\ \A j \in Candidates(r) :
             LET sale == salesData[j] IN
             /\ ~ValuePositive(sale) => Named(r, ValueText)
             /\ ProductIsTwoForOne(sale) => Named(r, ProductText)
             /\ CategoryIsRetail(sale) => Named(r, CategoryText)
             /\ ~DateParsesAndNotBefore(r, sale) => Named(r, BeforeText)
             /\ IsRefunded(sale) => Named(r, RefundedText)

(* the conditions under which the code names each reason *)
ValueZeroOrNegative(sale) == saleValue(sale).t = "number" /\ saleValue(sale).n <= 0

DatedBeforeVisit(r, sale) ==
  /\ saleDate(sale).t = "number"
  /\ VisitTime(r).t = "number"
  /\ saleDate(sale).n < VisitTime(r).n

(* the purchase fails a predicate in a way that has no reason text: its    *)
(* value is not a number, or its date or the first visit date is not a date *)
FailsUnnamed(r, sale) ==
  \/ saleValue(sale).t # "number"
  \/ saleDate(sale).t # "number"
  \/ VisitTime(r).t # "number"

(* C10, amended: for a not-converted client with at least one candidate,   *)
(* the reasons named are exactly those of the conditions its candidates    *)
(* meet: value zero or negative, product with "2 for 1", category retail,  *)
(* both dates parsed and the purchase before the first visit, refunded.    *)
(* When no candidate meets any of them, which takes every candidate to     *)
(* fail through a value or a date that does not parse, the explanation is  *)
(* the generic text; otherwise it names the reasons.                       *)
C10_ReasonsOfTheConditionsMet ==
  pc = "done" =>
    \A k \in Results :
      LET r == processed[k] IN
      (r.conversionStatus = "not_converted" /\ Candidates(r) # {}) =>
        /\ Named(r, ValueText) <=> \E j \in Candidates(r) : ValueZeroOrNegative(salesData[j])
        /\ Named(r, ProductText) <=> \E j \in Candidates(r) : ProductIsTwoForOne(salesData[j])
        /\ Named(r, CategoryText) <=> \E j \in Candidates(r) : CategoryIsRetail(salesData[j])
        /\ Named(r, BeforeText) <=> \E j \in Candidates(r) : DatedBeforeVisit(r, salesData[j])
        /\ Named(r, RefundedText) <=> \E j \in Candidates(r) : IsRefunded(salesData[j])
        /\ \A i \in 1..Len(r.conversionDetails.reasons) :
             r.conversionDetails.reasons[i] \in
               {ValueText, ProductText, CategoryText, BeforeText, RefundedText}
        /\ IF Len(r.conversionDetails.reasons) > 0
           THEN r.conversionDetails.text = ReasonsText
           ELSE /\ r.conversionDetails.text = GenericText
                /\ \A j \in Candidates(r) : FailsUnnamed(r, salesData[j])

(* a client not converted by two candidates: a lone-reason 2 For 1 pass    *)
(* that is named, and a purchase with an unparseable date that adds none   *)
C10_Witness ==
  /\ pc = "done"
  /\ \E k \in Results : \E i, j \in Candidates(processed[k]) :
       /\ processed[k].conversionStatus = "not_converted"
       /\ ProductIsTwoForOne(salesData[i])
       /\ saleDate(salesData[j]).t # "number"
       /\ processed[k].conversionDetails.reasons = <<ProductText>>
       /\ processed[k].conversionDetails.text = ReasonsText

---------------------------------------------------------------------------
(* C11: the reasons of a not-converted client are distinct: none appears   *)
(* twice in the explanation, also when two candidates meet the same        *)
(* condition.                                                              *)
C11_ReasonsAreDistinct ==
  pc = "done" =>
    \A k \in Results :
      LET rs == processed[k].conversionDetails.reasons IN
      \A i, j \in 1..Len(rs) : rs[i] = rs[j] => i = j

(* C12: the explanation is 'No purchase records found for this client'     *)
(* exactly when the client has no candidate at all; with candidates, none  *)
(* of them valid, the explanation is another text; the status is           *)
(* not_converted in both cases.                                            *)
C12_NoRecordsIffNoCandidates ==
  pc = "done" =>
    \A k \in Results :
      LET r == processed[k] IN
      /\ (r.conversionDetails.text = NoRecordsText) <=> (Candidates(r) = {})
      /\ Candidates(r) = {} => r.conversionStatus = "not_converted"
      /\ (Candidates(r) # {} /\ ValidCandidates(r) = {}) =>
           /\ r.conversionStatus = "not_converted"
           /\ r.conversionDetails.text \in {ReasonsText, GenericText}

(* of two clients and the same payment rows, one has no candidate and the  *)
(* other has candidates that name no reason                                *)
C12_Witness ==
  /\ pc = "done"
  /\ Len(salesData) > 0
  /\ \E k \in Results :
       /\ Candidates(processed[k]) = {}
       /\ processed[k].conversionDetails.text = NoRecordsText
  /\ \E k \in Results :
       /\ Candidates(processed[k]) # {}
       /\ ValidCandidates(processed[k]) = {}
       /\ processed[k].conversionDetails.text = GenericText

(* C13: the classification never throws, whatever strings, numbers or      *)
(* missing cells the rows hold.                                            *)
C13_ClassificationNeverThrows == pc # "threw"

(* what the classification says of a client *)
Outcome(r) ==
  [conversionStatus |-> r.conversionStatus,
   firstPurchaseDate |-> r.firstPurchaseDate,
   firstPurchaseProduct |-> r.firstPurchaseProduct,
   firstPurchaseValue |-> r.firstPurchaseValue,
   daysToConversion |-> r.daysToConversion,
   conversionDetails |-> r.conversionDetails,
   validationErrors |-> r.validationErrors]

(* the client row result k was made from *)
RowOfResult(k) == newClientData[keptClients(newClientData)[k]]

(* C14: what the classification says of a client is what it says of that   *)
(* client's row classified with the same payment rows and no other client  *)
(* row: the other rows and the position of the row have no influence.      *)
C14_OutcomeDependsOnOwnRowOnly ==
  pc = "done" =>
    \A k \in Results :
      Outcome(processed[k]) = Outcome(processedData(<<RowOfResult(k)>>, salesData)[1])

(* C15: a client row is dropped exactly when its teacher, under whichever  *)
(* of the accepted columns it is given, is the label 'All Trainers': the   *)
(* results are made from the other rows, and from all of them.             *)
C15_ExactlyAggregateRowsAreDropped ==
  pc = "done" =>
    /\ \A k \in Results : ~IsAggregateRow(RowOfResult(k))
    /\ Len(processed) = Len(ClientProfiles)

---------------------------------------------------------------------------
(* The Index page.  The page starts empty or with the results of an       *)
(* earlier session loaded from storage, which it shows at once.           *)
InitRun ==
  /\ IdleTable
  /\ stats = <<>>
  /\ IdleFooter
  /\ IdleSide
  /\ files \in SUBSET FileKinds
  /\ isProcessing = FALSE
  /\ progress = 0
  /\ currentStep = ""
  /\ pageData \in {"none", "previous"}
  /\ resultsVisible = (pageData = "previous")
  /\ hpc = "idle"
  /\ env = WorkingEnv
  /\ reports = <<>>
  /\ emitted = <<>>

HandleFilesAdded ==
  \E kind \in FileKinds \ files :
    /\ files' = files \union {kind}
    /\ UNCHANGED <<sideVars, tableVars, stats, footerVars, isProcessing, progress, currentStep,
                   pageData, resultsVisible, hpc, env, reports, emitted>>

HandleRemoveFile ==
  \E kind \in files :
    /\ files' = files \ {kind}
    /\ UNCHANGED <<sideVars, tableVars, stats, footerVars, isProcessing, progress, currentStep,
                   pageData, resultsVisible, hpc, env, reports, emitted>>

(* handleProcessFiles up to its first await.  The checks on the files     *)
(* return early; otherwise the page's data is cleared, isProcessing is set, *)
(* progress 0 is reported outside the try block and progress 10 inside it, *)
(* and parseCSV is awaited.  An exception of the first update leaves the   *)
(* handler; one of the second is caught.                                   *)
HandleProcessFiles ==
  /\ hpc \in {"idle", "returned", "done", "failed"}
  /\ \E e \in Envs, plan \in ReportPlans :
       IF files = {} \/ "new" \notin files \/ "bookings" \notin files
       THEN /\ hpc' = "returned"
            /\ UNCHANGED <<isProcessing, progress, currentStep, pageData,
                           env, reports, emitted>>
       ELSE /\ pageData' = "cleared"
            /\ env' = e
            /\ reports' = plan
            /\ CASE e.reporter = "starting" ->
                       /\ isProcessing' = TRUE
                       /\ hpc' = "rejected"
                       /\ emitted' = <<>>
                       /\ UNCHANGED <<progress, currentStep>>
                 [] e.reporter = "parsing" ->
                       /\ isProcessing' = FALSE
                       /\ hpc' = "failed"
                       /\ progress' = StartingProgress.progress
                       /\ currentStep' = StartingProgress.currentStep
                       /\ emitted' = <<Emission(StartingProgress, FALSE)>>
                 [] OTHER ->
                       /\ isProcessing' = TRUE
                       /\ hpc' = "parsing"
                       /\ progress' = ParsingProgress.progress
                       /\ currentStep' = ParsingProgress.currentStep
                       /\ emitted' = <<Emission(StartingProgress, FALSE),
                                       Emission(ParsingProgress, FALSE)>>
  /\ UNCHANGED <<sideVars, tableVars, stats, footerVars, files, resultsVisible>>

(* the files are parsed (the awaits of parseCSV): the raw rows are stored, *)
(* progress 30 is reported and processData is awaited; an exception of     *)
(* parseCSV or of the update goes to the catch block                       *)
ParseCSVSettles ==
  /\ hpc = "parsing"
  /\ IF env.parseCSV = "throws" \/ env.reporter = "processing"
     THEN /\ isProcessing' = FALSE
          /\ hpc' = "failed"
          /\ UNCHANGED <<progress, currentStep, emitted>>
     ELSE /\ hpc' = "processing"
          /\ progress' = ProcessingProgress.progress
          /\ currentStep' = ProcessingProgress.currentStep
          /\ emitted' = Append(emitted, Emission(ProcessingProgress, FALSE))
          /\ UNCHANGED isProcessing
  /\ UNCHANGED <<sideVars, tableVars, stats, footerVars, files, pageData, resultsVisible,
                 env, reports>>

(* processData reports a stage through the callback; a report that fails  *)
(* is dropped by processData                                               *)
ProcessDataReports ==
  /\ hpc = "processing"
  /\ reports # <<>>
  /\ reports' = Tail(reports)
  /\ IF env.reporter = "callback"
     THEN UNCHANGED <<progress, currentStep, emitted>>
     ELSE /\ progress' = Head(reports)
          /\ currentStep' = "processData stage"
          /\ emitted' =
               Append(emitted, [progress |-> Head(reports), stored |-> pageData = "results"])
  /\ UNCHANGED <<sideVars, tableVars, stats, footerVars, files, isProcessing, pageData,
                 resultsVisible, hpc, env>>

(* processData settles: its results are stored, progress 100 is reported   *)
(* and the timer that shows the results is set; an exception of            *)
(* processData or of the update goes to the catch block                    *)
ProcessDataSettles ==
  /\ hpc = "processing"
  /\ reports = <<>>
  /\ IF env.processData = "throws"
     THEN /\ isProcessing' = FALSE
          /\ hpc' = "failed"
          /\ UNCHANGED <<pageData, progress, currentStep, emitted>>
     ELSE /\ pageData' = "results"
          /\ IF env.reporter = "finalizing"
             THEN /\ isProcessing' = FALSE
                  /\ hpc' = "failed"
                  /\ UNCHANGED <<progress, currentStep, emitted>>
             ELSE /\ hpc' = "timer"
                  /\ progress' = FinalizingProgress.progress
                  /\ currentStep' = FinalizingProgress.currentStep
                  /\ emitted' = Append(emitted, Emission(FinalizingProgress, TRUE))
                  /\ UNCHANGED isProcessing
  /\ UNCHANGED <<sideVars, tableVars, stats, footerVars, files, resultsVisible, env, reports>>

(* the callback of setTimeout(..., 1000) *)
ShowResults ==
  /\ hpc = "timer"
  /\ hpc' = "done"
  /\ isProcessing' = FALSE
  /\ resultsVisible' = TRUE
  /\ UNCHANGED <<sideVars, tableVars, stats, footerVars, files, progress, currentStep,
                 pageData, env, reports, emitted>>

NextRun ==
  \/ HandleFilesAdded
  \/ HandleRemoveFile
  \/ HandleProcessFiles
  \/ ParseCSVSettles
  \/ ProcessDataReports
  \/ ProcessDataSettles
  \/ ShowResults

SpecRun == InitRun /\ [][NextRun]_vars

---------------------------------------------------------------------------
(* The Index page when handleProcessFiles is invoked again before an      *)
(* earlier invocation has finished.  The uploader, with its button, is    *)
(* rendered as long as resultsVisible is false; the handler itself tests  *)
(* only the files.  Each invocation is followed through its awaits; the   *)
(* progress updates succeed.                                              *)
InFlight == {"parsing", "processing", "timer"}

Outcomes == {"returns", "throws"}

InitOverlap ==
  /\ IdleTable
  /\ stats = <<>>
  /\ IdleFooter
  /\ IdleModal
  /\ IdleRuns
  /\ IdleRest
  /\ files \in SUBSET FileKinds
  /\ isProcessing = FALSE
  /\ progress = 0
  /\ currentStep = ""
  /\ pageData \in {"none", "previous"}
  /\ resultsVisible = (pageData = "previous")
  /\ hpc = "idle"
  /\ env = WorkingEnv
  /\ reports = <<>>
  /\ emitted = <<>>

(* the uploader's callbacks, available while the uploader is rendered *)
FilesAdded ==
  /\ ~resultsVisible
  /\ \E kind \in FileKinds \ files : files' = files \union {kind}
  /\ UNCHANGED <<restVars, tableVars, stats, footerVars, modalVars, runs, isProcessing, progress,
                 currentStep, pageData, resultsVisible, hpc, env, reports, emitted>>

FileRemoved ==
  /\ ~resultsVisible
  /\ \E kind \in files : files' = files \ {kind}
  /\ UNCHANGED <<restVars, tableVars, stats, footerVars, modalVars, runs, isProcessing, progress,
                 currentStep, pageData, resultsVisible, hpc, env, reports, emitted>>

(* the button 'Process new files' of the results view *)
ProcessNewFiles ==
  /\ resultsVisible
  /\ resultsVisible' = FALSE
  /\ UNCHANGED <<restVars, tableVars, stats, footerVars, modalVars, runs, files, isProcessing,
                 progress, currentStep, pageData, hpc, env, reports, emitted>>

(* handleProcessFiles is invoked and runs up to its first await; an       *)
(* invocation that fails the checks on the files returns at once          *)
InvokeProcessFiles ==
  /\ ~resultsVisible
  /\ IF files = {} \/ "new" \notin files \/ "bookings" \notin files
     THEN UNCHANGED <<runs, isProcessing, progress, currentStep, pageData>>
     ELSE /\ \E r \in 1..MaxRuns, p \in Outcomes, d \in Outcomes :
               /\ runs[r].at \notin InFlight
               /\ runs' = [runs EXCEPT ![r] = [at |-> "parsing", parseCSV |-> p, processData |-> d]]
          /\ pageData' = "cleared"
          /\ isProcessing' = TRUE
          /\ progress' = ParsingProgress.progress
          /\ currentStep' = ParsingProgress.currentStep
  /\ UNCHANGED <<restVars, tableVars, stats, footerVars, modalVars, files, resultsVisible,
                 hpc, env, reports, emitted>>

(* the awaits of parseCSV of an invocation settle *)
ParseCSVSettlesIn(r) ==
  /\ runs[r].at = "parsing"
  /\ IF runs[r].parseCSV = "throws"
     THEN /\ runs' = [runs EXCEPT ![r].at = "failed"]
          /\ isProcessing' = FALSE
          /\ UNCHANGED <<progress, currentStep>>
     ELSE /\ runs' = [runs EXCEPT ![r].at = "processing"]
          /\ progress' = ProcessingProgress.progress
          /\ currentStep' = ProcessingProgress.currentStep
          /\ UNCHANGED isProcessing
  /\ UNCHANGED <<restVars, tableVars, stats, footerVars, modalVars, files, pageData,
                 resultsVisible, hpc, env, reports, emitted>>

(* the await of processData of an invocation settles *)
ProcessDataSettlesIn(r) ==
  /\ runs[r].at = "processing"
  /\ IF runs[r].processData = "throws"
     THEN /\ runs' = [runs EXCEPT ![r].at = "failed"]
          /\ isProcessing' = FALSE
          /\ UNCHANGED <<pageData, progress, currentStep>>
     ELSE /\ runs' = [runs EXCEPT ![r].at = "timer"]
          /\ pageData' = "results"
          /\ progress' = FinalizingProgress.progress
          /\ currentStep' = FinalizingProgress.currentStep
          /\ UNCHANGED isProcessing
  /\ UNCHANGED <<restVars, tableVars, stats, footerVars, modalVars, files, resultsVisible,
                 hpc, env, reports, emitted>>

(* the setTimeout callback of an invocation *)
ShowResultsOf(r) ==
  /\ runs[r].at = "timer"
  /\ runs' = [runs EXCEPT ![r].at = "done"]
  /\ isProcessing' = FALSE
  /\ resultsVisible' = TRUE
  /\ UNCHANGED <<restVars, tableVars, stats, footerVars, modalVars, files, progress, currentStep,
                 pageData, hpc, env, reports, emitted>>

NextOverlap ==
  \/ FilesAdded
  \/ FileRemoved
  \/ ProcessNewFiles
  \/ InvokeProcessFiles
  \/ \E r \in 1..MaxRuns : ParseCSVSettlesIn(r)
  \/ \E r \in 1..MaxRuns : ProcessDataSettlesIn(r)
  \/ \E r \in 1..MaxRuns : ShowResultsOf(r)

SpecOverlap == InitOverlap /\ [][NextOverlap]_vars

---------------------------------------------------------------------------
(* AISettingsModal: the provider, the API key and the model the user      *)
(* chose, and the text saved under the key 'ai-settings'.                 *)
T_deepseek == <<"d","e","e","p","s","e","e","k">>

T_groq == <<"g","r","o","q">>

(* AI_PROVIDERS: the id of each provider and its models *)
AI_PROVIDERS ==
  << [id |-> T_openai, models |-> <<<<"g","p","t","-","4">>, <<"g","p","t","-","4","-","t","u","r","b","o">>, <<"g","p","t","-","3",".","5","-","t","u","r","b","o">>>>],
     [id |-> T_deepseek, models |-> <<<<"d","e","e","p","s","e","e","k","-","c","h","a","t">>, <<"d","e","e","p","s","e","e","k","-","c","o","d","e","r">>>>],
     [id |-> T_groq, models |-> <<<<"l","l","a","m","a","-","3",".","1","-","7","0","b","-","v","e","r","s","a","t","i","l","e">>, <<"m","i","x","t","r","a","l","-","8","x","7","b","-","3","2","7","6","8">>>>] >>

(* the texts typed into the API key field *)
ApiKeys == { <<>>, <<"s","k","-","1">>, <<"g","s","k","_","2">> }

(* the settings of the second tab, left at their defaults, as JSON text *)
DefaultSettingsText ==
  <<"{","\"","e","n","a","b","l","e","I","n","s","i","g","h","t","s","\"",":","t","r","u","e",",","\"","e","n","a","b","l","e","S","c","o","r","i","n","g","\"",":","t","r","u","e",",","\"","e","n","a","b","l","e","S","u","m","m","a","r","i","e","s","\"",":","t","r","u","e",",","\"","e","n","a","b","l","e","R","e","c","o","m","m","e","n","d","a","t","i","o","n","s","\"",":","t","r","u","e",",","\"","t","e","m","p","e","r","a","t","u","r","e","\"",":","0",".","7",",","\"","m","a","x","T","o","k","e","n","s","\"",":","1","0","0","0","}">>

Quote == <<"\"">>

(* JSON.stringify of a string without characters to escape *)
stringifyString(chars) == Quote \o chars \o Quote

(* JSON.stringify(settingsToSave) *)
stringify(provider, key, model) ==
  <<"{">> \o stringifyString(<<"p","r","o","v","i","d","e","r">>) \o <<":">> \o stringifyString(provider) \o <<",">>
    \o stringifyString(<<"a","p","i","K","e","y">>) \o <<":">> \o stringifyString(key) \o <<",">>
    \o stringifyString(<<"m","o","d","e","l">>) \o <<":">> \o stringifyString(model) \o <<",">>
    \o stringifyString(<<"s","e","t","t","i","n","g","s">>) \o <<":">> \o DefaultSettingsText \o <<"}">>

(* the characters of text from position i up to the next quote *)
RECURSIVE upToQuote(_, _)
upToQuote(text, i) ==
  IF i > Len(text) \/ text[i] = "\"" THEN <<>>
  ELSE <<text[i]>> \o upToQuote(text, i + 1)

(* JSON.parse(saved)[name] for a string member of the saved object *)
parsedMember(text, name) ==
  LET label == stringifyString(name) \o <<":">> \o Quote
      at == CHOOSE i \in 1..Len(text) : SubSeq(text, i, i + Len(label) - 1) = label
  IN  upToQuote(text, at + Len(label))

OrChars(a, b) == IF a # <<>> THEN a ELSE b

(* the modal mounts (the page is loaded): the state starts at its         *)
(* defaults and the effect loads the saved settings, if any                *)
LoadSettings ==
  /\ IF aiSettings = Null
     THEN /\ selectedProvider' = T_openai
          /\ apiKey' = <<>>
          /\ selectedModel' = <<>>
     ELSE /\ selectedProvider' = OrChars(parsedMember(aiSettings.s, <<"p","r","o","v","i","d","e","r">>), T_openai)
          /\ apiKey' = parsedMember(aiSettings.s, <<"a","p","i","K","e","y">>)
          /\ selectedModel' = parsedMember(aiSettings.s, <<"m","o","d","e","l">>)
  /\ UNCHANGED <<aiSettings, tableVars, stats, footerVars, pageVars, runs, restVars>>

(* a click on a provider card selects it and its first model *)
SelectProvider ==
  \E k \in 1..Len(AI_PROVIDERS) :
    /\ selectedProvider' = AI_PROVIDERS[k].id
    /\ selectedModel' = AI_PROVIDERS[k].models[1]
    /\ UNCHANGED <<apiKey, aiSettings, tableVars, stats, footerVars, pageVars, runs, restVars>>

SetApiKey ==
  \E key \in ApiKeys :
    /\ apiKey' = key
    /\ UNCHANGED <<selectedProvider, selectedModel, aiSettings,
                   tableVars, stats, footerVars, pageVars, runs, restVars>>

(* the Select offers the models of the current provider *)
SetSelectedModel ==
  \E k \in 1..Len(AI_PROVIDERS) :
    /\ AI_PROVIDERS[k].id = selectedProvider
    /\ \E j \in 1..Len(AI_PROVIDERS[k].models) :
         selectedModel' = AI_PROVIDERS[k].models[j]
    /\ UNCHANGED <<selectedProvider, apiKey, aiSettings,
                   tableVars, stats, footerVars, pageVars, runs, restVars>>

(* Save Settings *)
SaveSettings ==
  /\ aiSettings' = Str(stringify(selectedProvider, apiKey, selectedModel))
  /\ UNCHANGED <<selectedProvider, apiKey, selectedModel,
                 tableVars, stats, footerVars, pageVars, runs, restVars>>

InitModal ==
  /\ IdleTable
  /\ stats = <<>>
  /\ IdleFooter
  /\ IdlePage
  /\ IdleSide

NextModal ==
  \/ LoadSettings
  \/ SelectProvider
  \/ SetApiKey
  \/ SetSelectedModel
  \/ SaveSettings

SpecModal == InitModal /\ [][NextModal]_vars

---------------------------------------------------------------------------
(* The Index page's processedData and filteredData and their copies in    *)
(* localStorage.  A row of teacher data is known by its teacherName; what *)
(* is stored is its JSON text.                                            *)
TeacherRows ==
  { [teacherName |-> <<"A","n","n">>], [teacherName |-> <<"B","o","b">>],
    [teacherName |-> <<"C","y">>] }

(* the arrays processData can return, the empty one included *)
TeacherArrays == Arrays(TeacherRows, Cardinality(TeacherRows))

RowLabel == <<"{">> \o stringifyString(<<"t","e","a","c","h","e","r","N","a","m","e">>) \o <<":">> \o Quote

stringifyRow(row) == RowLabel \o row.teacherName \o Quote \o <<"}">>

RECURSIVE joinRows(_)
joinRows(rows) ==
  IF rows = <<>> THEN <<>>
  ELSE IF Len(rows) = 1 THEN stringifyRow(rows[1])
  ELSE stringifyRow(Head(rows)) \o <<",">> \o joinRows(Tail(rows))

(* JSON.stringify(data) of saveToStorage *)
stringifyRows(rows) == <<"[">> \o joinRows(rows) \o <<"]">>

RECURSIVE parseRowsFrom(_, _)
parseRowsFrom(text, i) ==
  IF i > Len(text) THEN <<>>
  ELSE IF i + Len(RowLabel) - 1 <= Len(text) /\ SubSeq(text, i, i + Len(RowLabel) - 1) = RowLabel
       THEN <<[teacherName |-> upToQuote(text, i + Len(RowLabel))]>>
              \o parseRowsFrom(text, i + Len(RowLabel))
       ELSE parseRowsFrom(text, i + 1)

(* loadFromStorage(key): JSON.parse of the stored text, null when absent *)
loadFromStorage(stored) ==
  IF stored = Null THEN [isNull |-> TRUE, rows |-> <<>>]
  ELSE [isNull |-> FALSE, rows |-> parseRowsFrom(stored.s, 1)]

(* the save effect that follows a change of processedData or filteredData: *)
(* an array is saved when it is not empty                                   *)
saveEffect(store, processedRows, filteredRows) ==
  [processed |-> IF Len(processedRows) > 0 THEN Str(stringifyRows(processedRows))
                 ELSE store.processed,
   filtered |-> IF Len(filteredRows) > 0 THEN Str(stringifyRows(filteredRows))
                ELSE store.filtered]

(* the arrays that keep some rows of an array, in their order *)
Selections(rows) ==
  { SelectSeq(rows, LAMBDA row : row \in kept) : kept \in SUBSET TeacherRows }

InitStorage ==
  /\ IdleTable
  /\ stats = <<>>
  /\ IdleFooter
  /\ IdlePage
  /\ IdleModal
  /\ IdleRuns
  /\ IdleStorage
  /\ IdleFilter
  /\ IdleQuery

(* the page is loaded: the state starts empty and the load effect restores *)
(* what was saved                                                          *)
LoadSavedData ==
  LET savedProcessedData == loadFromStorage(storage.processed)
      savedFilteredData == loadFromStorage(storage.filtered)
      processedRows == IF ~savedProcessedData.isNull THEN savedProcessedData.rows ELSE <<>>
      filteredRows == IF ~savedFilteredData.isNull THEN savedFilteredData.rows ELSE <<>>
  IN  /\ processedTeacherData' = processedRows
      /\ filteredData' = filteredRows
      /\ resultsVisible' = ~savedProcessedData.isNull
      /\ pageData' = IF ~savedProcessedData.isNull THEN "previous" ELSE "none"
      /\ storage' = saveEffect(storage, processedRows, filteredRows)
      /\ UNCHANGED <<tableVars, stats, footerVars, modalVars, runs, filterVars, queryVars,
                     files, isProcessing, progress, currentStep, hpc, env, reports, emitted>>

(* handleProcessFiles clears the previous data and the storage *)
ClearPreviousData ==
  /\ ~resultsVisible
  /\ processedTeacherData' = <<>>
  /\ filteredData' = <<>>
  /\ storage' = NothingStored
  /\ pageData' = "cleared"
  /\ UNCHANGED <<tableVars, stats, footerVars, modalVars, runs, filterVars, queryVars,
                 files, isProcessing, progress, currentStep, resultsVisible,
                 hpc, env, reports, emitted>>

(* handleProcessFiles stores the result of processData and shows it *)
StoreResults ==
  /\ pageData = "cleared"
  /\ \E result \in TeacherArrays :
       /\ processedTeacherData' = result
       /\ filteredData' = result
       /\ storage' = saveEffect(storage, result, result)
  /\ pageData' = "results"
  /\ resultsVisible' = TRUE
  /\ UNCHANGED <<tableVars, stats, footerVars, modalVars, runs, filterVars, queryVars,
                 files, isProcessing, progress, currentStep, hpc, env, reports, emitted>>

(* the filter bar reports the rows its filters keep *)
HandleFilteredDataChange ==
  /\ resultsVisible
  /\ \E newFilteredData \in Selections(processedTeacherData) :
       /\ filteredData' = newFilteredData
       /\ storage' = saveEffect(storage, processedTeacherData, newFilteredData)
  /\ UNCHANGED <<tableVars, stats, footerVars, modalVars, runs, filterVars, queryVars,
                 pageVars, processedTeacherData>>

(* 'Process new files' of the results view *)
BackToUpload ==
  /\ resultsVisible
  /\ resultsVisible' = FALSE
  /\ UNCHANGED <<tableVars, stats, footerVars, modalVars, runs, restVars,
                 files, isProcessing, progress, currentStep, pageData,
                 hpc, env, reports, emitted>>

(* 'Reset data' of the results view *)
HandleResetApp ==
  /\ resultsVisible
  /\ resultsVisible' = FALSE
  /\ processedTeacherData' = <<>>
  /\ filteredData' = <<>>
  /\ storage' = NothingStored
  /\ pageData' = "none"
  /\ files' = {}
  /\ UNCHANGED <<tableVars, stats, footerVars, modalVars, runs, filterVars, queryVars,
                 isProcessing, progress, currentStep, hpc, env, reports, emitted>>

NextStorage ==
  \/ LoadSavedData
  \/ ClearPreviousData
  \/ StoreResults
  \/ HandleFilteredDataChange
  \/ BackToUpload
  \/ HandleResetApp

SpecStorage == InitStorage /\ [][NextStorage]_vars

---------------------------------------------------------------------------
(* EnhancedFilterBar: the data prop, the filters selected in the three    *)
(* dimensions and the array last passed to onFilterChange.  A selection   *)
(* is a set of the values offered by the selects, which are the non-empty *)
(* values found in the data.                                              *)
F_AnnJun == [teacherName |-> "Ann", location |-> "Kwality House", period |-> "Jun-25"]

F_BobMay == [teacherName |-> "Bob", location |-> "Studio 1", period |-> "May-25"]

(* a row without period *)
F_NoPeriod == [teacherName |-> "Bob", location |-> "Kwality House", period |-> ""]

FilterItems == { F_AnnJun, F_BobMay, F_NoPeriod, Null }

Dimensions == { "period", "teacher", "location" }

(* the field of an item each dimension looks at *)
FieldOf == [location |-> "location", period |-> "period", teacher |-> "teacherName"]

(* the strings in the order sort() gives them *)
SortOrder == << "All Teachers", "Ann", "Bob", "Jun-25", "Kwality House", "May-25", "Studio 1" >>

(* [...new Set(values)].sort() restricted to its first element: slice(0, 1) *)
firstSorted(values) ==
  IF values = {} THEN {}
  ELSE { SortOrder[CHOOSE i \in 1..Len(SortOrder) :
                     /\ SortOrder[i] \in values
                     /\ \A j \in 1..(i - 1) : SortOrder[j] \notin values] }

(* uniquePeriods, uniqueTeachers, uniqueLocations *)
uniqueValues(items, dimension) ==
  IF ~isArray(items) THEN {}
  ELSE { items[i][FieldOf[dimension]] :
           i \in { k \in 1..Len(items) :
                     /\ items[k] # Null
                     /\ items[k][FieldOf[dimension]] # ""
                     /\ (dimension = "teacher" => items[k].teacherName # "All Teachers") } }

(* setDefaultFilters *)
defaultFilters(items) ==
  [teacher |-> uniqueValues(items, "teacher"),
   location |-> IF "Kwality House" \in uniqueValues(items, "location")
                THEN {"Kwality House"} ELSE firstSorted(uniqueValues(items, "location")),
   period |-> IF "Jun-25" \in uniqueValues(items, "period")
              THEN {"Jun-25"} ELSE firstSorted(uniqueValues(items, "period"))]

(* one filter step of the effect: applied when the selection is not empty *)
filterBy(items, field, selection) ==
  IF selection = {} THEN items
  ELSE SelectSeq(items, LAMBDA item : item[field] # "" /\ item[field] \in selection)

(* faulty variant: the null items are kept *)
applyFiltersKeepingNull(items, filters) ==
  IF ~isArray(items) THEN <<>>
  ELSE IF filters = NoFilters THEN items
  ELSE filterBy(filterBy(filterBy(SelectSeq(items, LAMBDA item : item # Null),
                                  "period", filters.period),
                         "teacherName", filters.teacher),
                "location", filters.location)

(* the array the filter effect passes to onFilterChange *)
applyFilters(items, filters) ==
  IF ~isArray(items) THEN <<>>
  ELSE filterBy(filterBy(filterBy(SelectSeq(items, LAMBDA item : item # Null),
                                  "period", filters.period),
                         "teacherName", filters.teacher),
                "location", filters.location)

InitFilter ==
  /\ IdleTable
  /\ stats = <<>>
  /\ IdleFooter
  /\ IdlePage
  /\ IdleModal
  /\ IdleRuns
  /\ IdleStorage
  /\ IdleFilter
  /\ IdleQuery

(* filters saveFilters can have stored: selections of offered values *)
SavedFilters ==
  { [location |-> {"Studio 1"}, period |-> periods, teacher |-> teachers] :
      periods \in {{}, {"May-25"}}, teachers \in {{}, {"Ann"}} }

(* the bar is rendered with a data prop, at mount or when the data        *)
(* changes: the saved filters, or the default ones when nothing is saved, *)
(* are set and the filter effect runs                                     *)
ReceiveData ==
  \E items \in Arrays(FilterItems, MaxItems) \union {NotAnArray} :
    \E newFilters \in {defaultFilters(items)} \union SavedFilters :
      /\ barData' = items
      /\ selectedFilters' = newFilters
      /\ reported' = applyFilters(items, newFilters)
      /\ UNCHANGED <<tableVars, stats, footerVars, pageVars, modalVars, runs,
                   storageVars, queryVars>>

(* handleFilterChange(type, values), followed by the filter effect *)
HandleFilterChange ==
  \E dimension \in Dimensions :
    \E values \in SUBSET uniqueValues(barData, dimension) :
      LET newFilters == [selectedFilters EXCEPT ![dimension] = values] IN
      /\ selectedFilters' = newFilters
      /\ reported' = applyFilters(barData, newFilters)
      /\ UNCHANGED <<tableVars, stats, footerVars, pageVars, modalVars, runs,
                     storageVars, queryVars, barData>>

(* clearAllFilters, followed by the filter effect *)
ClearAllFilters ==
  /\ selectedFilters' = NoFilters
  /\ reported' = applyFilters(barData, NoFilters)
  /\ UNCHANGED <<tableVars, stats, footerVars, pageVars, modalVars, runs,
                 storageVars, queryVars, barData>>

NextFilter ==
  \/ ReceiveData
  \/ HandleFilterChange
  \/ ClearAllFilters

SpecFilter == InitFilter /\ [][NextFilter]_vars

---------------------------------------------------------------------------
(* SmartQueryInterface: the text of the input, isProcessing, the list of  *)
(* responses and the data prop.  accepted records, for every submission   *)
(* that passed the guard of handleSubmit, the query given to analyzeQuery *)
(* and how the analysis ended.                                            *)
MaxQueries == 2

(* String.prototype.trim *)
trim(chars) == TrimRight(TrimLeft(chars))

(* "Which teacher has the highest retention rate and why?" *)
TeacherSuggestion ==
  << "W", "h", "i", "c", "h", " ", "t", "e", "a", "c", "h", "e", "r",
     " ", "h", "a", "s", " ", "t", "h", "e", " ", "h", "i", "g", "h",
     "e", "s", "t", " ", "r", "e", "t", "e", "n", "t", "i", "o", "n",
     " ", "r", "a", "t", "e", " ", "a", "n", "d", " ", "w", "h", "y",
     "?" >>

(* "How can we improve trial-to-membership conversion?" *)
ConversionSuggestion ==
  << "H", "o", "w", " ", "c", "a", "n", " ", "w", "e", " ", "i", "m",
     "p", "r", "o", "v", "e", " ", "t", "r", "i", "a", "l", "-", "t",
     "o", "-", "m", "e", "m", "b", "e", "r", "s", "h", "i", "p", " ",
     "c", "o", "n", "v", "e", "r", "s", "i", "o", "n", "?" >>

(* the first suggestions offered as buttons *)
suggestions == { TeacherSuggestion, ConversionSuggestion }

(* texts typed into the input *)
TypedQueries ==
  { <<>>, <<" ">>,
  << " ", "B", "e", "s", "t", " ", "t", "e", "a", "c", "h", "e", "r",
     " " >> }

HighestRetentionText ==
  << "h", "i", "g", "h", "e", "s", "t", " ", "r", "e", "t", "e", "n",
     "t", "i", "o", "n" >>

BestTeacherText ==
  << "b", "e", "s", "t", " ", "t", "e", "a", "c", "h", "e", "r" >>

(* rows of the data prop; a rate that was NaN when the results were saved *)
(* is null after JSON.stringify and JSON.parse                            *)
Q_Ann == [teacherName |-> "Ann", retentionRate |-> Num(50)]

Q_Bob == [teacherName |-> "Bob", retentionRate |-> Null]

QueryData == { <<>>, <<Q_Ann>>, <<Q_Bob>>, <<Q_Ann, Q_Bob>>, <<Q_Bob, Q_Ann>> }

(* the number a rate is in b.retentionRate - a.retentionRate *)
rateNumber(row) == IF row.retentionRate = Null THEN 0 ELSE row.retentionRate.n

(* the teacher rows sorted by falling retention rate; [0] is the top one *)
topTeacherIndex(rows) ==
  CHOOSE i \in 1..Len(rows) :
    \A j \in 1..Len(rows) :
      \/ rateNumber(rows[i]) > rateNumber(rows[j])
      \/ rateNumber(rows[i]) = rateNumber(rows[j]) /\ i <= j

asksForTopTeacher(userQuery) ==
  \/ includes(toLowerCase(userQuery), HighestRetentionText)
  \/ includes(toLowerCase(userQuery), BestTeacherText)

(* analyzeQuery throws: topTeacher.retentionRate.toFixed on a null rate *)
analyzeQueryThrows(userQuery, rows) ==
  /\ asksForTopTeacher(userQuery)
  /\ rows # <<>>
  /\ rows[topTeacherIndex(rows)].retentionRate = Null

(* the response analyzeQuery returns *)
analyzeQuery(userQuery, rows) ==
  [query |-> userQuery,
   type |-> IF asksForTopTeacher(userQuery) /\ rows # <<>> THEN "insight" ELSE "analysis"]

(* faulty variant: only the blank query is ignored *)
submitIgnoredWhenBlank(text, processing) == trim(text) = <<>>

(* if (!query.trim() || isProcessing) return *)
submitIgnored(text, processing) == trim(text) = <<>> \/ processing

InitQuery ==
  /\ IdleTable
  /\ stats = <<>>
  /\ IdleFooter
  /\ IdlePage
  /\ IdleModal
  /\ IdleRuns
  /\ IdleStorage
  /\ IdleFilter
  /\ query = <<>>
  /\ queryProcessing = FALSE
  /\ responses = <<>>
  /\ accepted = <<>>
  /\ queryRows \in QueryData

QueryFrame ==
  UNCHANGED <<tableVars, stats, footerVars, pageVars, modalVars, runs,
              storageVars, filterVars, queryRows>>

(* onChange of the input, which is disabled while a query is processed *)
SetQuery ==
  /\ ~queryProcessing
  /\ \E text \in TypedQueries : query' = text
  /\ UNCHANGED <<queryProcessing, responses, accepted>>
  /\ QueryFrame

(* handleSuggestionClick: the buttons are shown while there is no response *)
HandleSuggestionClick ==
  /\ responses = <<>>
  /\ \E suggestion \in suggestions : query' = suggestion
  /\ UNCHANGED <<queryProcessing, responses, accepted>>
  /\ QueryFrame

(* handleSubmit up to the await of analyzeQuery *)
HandleSubmit ==
  /\ IF submitIgnored(query, queryProcessing)
     THEN UNCHANGED <<query, queryProcessing, accepted>>
     ELSE /\ Len(accepted) < MaxQueries
          /\ query' = <<>>
          /\ queryProcessing' = TRUE
          /\ accepted' = Append(accepted, [query |-> trim(query), outcome |-> "pending"])
  /\ UNCHANGED responses
  /\ QueryFrame

(* analyzeQuery settles after its timer: the response is appended or the  *)
(* error is caught, and finally isProcessing is reset                     *)
AnalyzeQuerySettles ==
  \E i \in 1..Len(accepted) :
    /\ accepted[i].outcome = "pending"
    /\ IF analyzeQueryThrows(accepted[i].query, queryRows)
       THEN /\ accepted' = [accepted EXCEPT ![i].outcome = "threw"]
            /\ UNCHANGED responses
       ELSE /\ accepted' = [accepted EXCEPT ![i].outcome = "returned"]
            /\ responses' = Append(responses, analyzeQuery(accepted[i].query, queryRows))
    /\ queryProcessing' = FALSE
    /\ UNCHANGED query
    /\ QueryFrame

NextQuery ==
  \/ SetQuery
  \/ HandleSuggestionClick
  \/ HandleSubmit
  \/ AnalyzeQuerySettles

SpecQuery == InitQuery /\ [][NextQuery]_vars

---------------------------------------------------------------------------
(* The summaries, in the words of the claims *)
HowMany(seq, Test(_)) == Cardinality({ k \in 1..Len(seq) : Test(seq[k]) })

ItemConverted(item) == item["conversionStatus"] = Str(T_converted)

ItemRetained(item) == item["retentionStatus"] = Str(T_retained)

ResultConverted(r) == r.conversionStatus = "converted"

ResultNotConverted(r) == r.conversionStatus = "not_converted"

IsZero(q) == q.t = "number" /\ q.num = 0

IsNumber(q) == q.t = "number" /\ q.den # 0

(* C17: in the table's summary and in the footer's conversion and        *)
(* retention summaries every client is counted in exactly one class: the  *)
(* converted (retained) are those with that status, the others are all    *)
(* the rest, and the two counts add up to the total.                      *)
C17_EveryClientInOneClass ==
  /\ stats # <<>> =>
       LET s == stats[1] IN
       /\ s.total = Len(processed)
       /\ s.converted = HowMany(processed, ResultConverted)
       /\ s.notConverted = HowMany(processed, ResultNotConverted)
       /\ s.total = s.converted + s.notConverted
  /\ (footerPc = "rendered" /\ type = "conversion") =>
       LET m == metrics[1]
           Other(item) == ~ItemConverted(item)
       IN  /\ m.totalRecords = Len(data)
           /\ m.convertedCount = HowMany(data, ItemConverted)
           /\ m.notConvertedCount = HowMany(data, Other)
           /\ m.totalRecords = m.convertedCount + m.notConvertedCount
  /\ (footerPc = "rendered" /\ type = "retention") =>
       LET m == metrics[1]
           Other(item) == ~ItemRetained(item)
       IN  /\ m.totalRecords = Len(data)
           /\ m.retainedCount = HowMany(data, ItemRetained)
           /\ m.notRetainedCount = HowMany(data, Other)
           /\ m.totalRecords = m.retainedCount + m.notRetainedCount

(* both summaries computed, each with a client in either class; the       *)
(* footer's second item carries no conversion status at all               *)
C17_Witness ==
  /\ stats # <<>>
  /\ stats[1].converted = 1
  /\ stats[1].notConverted = 1
  /\ footerPc = "rendered"
  /\ type = "conversion"
  /\ metrics[1].convertedCount = 1
  /\ metrics[1].notConvertedCount = 1
  /\ \E k \in 1..Len(data) : data[k]["conversionStatus"] = Undefined

(* C18: every rate and average of the summaries is a number, and it is 0  *)
(* when its denominator is 0: no client, no new client, no converted      *)
(* client, no client with days or visits to average.                      *)
C18_RatesAreZeroWithoutDenominator ==
  /\ stats # <<>> =>
       LET s == stats[1]
           HasDays(r) == r.daysToConversion # Null
       IN  /\ IsNumber(s.conversionRate)
           /\ IsNumber(s.avgDaysToConversion)
           /\ Len(processed) = 0 => IsZero(s.conversionRate)
           /\ HowMany(processed, HasDays) = 0 => IsZero(s.avgDaysToConversion)
  /\ (footerPc = "rendered" /\ type = "performance") =>
       LET m == metrics[1] IN
       /\ IsNumber(m.avgRetentionRate)
       /\ IsNumber(m.avgConversionRate)
       /\ IsNumber(m.avgRevenuePerClient)
       /\ totalOf(data, "newClients") = 0 =>
            IsZero(m.avgRetentionRate) /\ IsZero(m.avgConversionRate)
       /\ totalOf(data, "convertedClients") = 0 => IsZero(m.avgRevenuePerClient)
  /\ (footerPc = "rendered" /\ type = "conversion") =>
       LET m == metrics[1]
           Timed(item) == ItemConverted(item) /\ Truthy(item["daysToConversion"])
       IN  /\ IsNumber(m.conversionRate)
           /\ IsNumber(m.avgConversionTime)
           /\ HowMany(data, Timed) = 0 => IsZero(m.avgConversionTime)
  /\ (footerPc = "rendered" /\ type = "retention") =>
       LET m == metrics[1]
           Visited(item) == Truthy(item["visitsPostTrial"])
       IN  /\ IsNumber(m.retentionRate)
           /\ IsNumber(m.avgVisitsPostTrial)
           /\ HowMany(data, Visited) = 0 => IsZero(m.avgVisitsPostTrial)

(* the table's summary of no client at all, and the footer's summary of   *)
(* teachers without a new client                                          *)
C18_Witness ==
  /\ stats # <<>>
  /\ stats[1].total = 0
  /\ IsZero(stats[1].conversionRate)
  /\ footerPc = "rendered"
  /\ type = "performance"
  /\ metrics[1].totalNewClients = 0
  /\ metrics[1].totalConverted = 0
  /\ IsZero(metrics[1].avgRetentionRate)
  /\ IsZero(metrics[1].avgRevenuePerClient)

---------------------------------------------------------------------------
C20_ReporterFailureNeverFailsTheRun ==
  hpc \in {"failed", "rejected"} =>
    (env.parseCSV = "throws" \/ env.processData = "throws")

---------------------------------------------------------------------------
(* C21: when a prop of the component is not an array, the memo neither    *)
(* returns a result (an empty one included) nor throws from the           *)
(* classification of a client: the violation is rejected before any       *)
(* client is looked at.                                                   *)
C21_NonArrayInputRejectedAtEntry ==
  (~isArray(newClientData) \/ ~isArray(salesData)) => pc \notin {"done", "threw"}

---------------------------------------------------------------------------
(* C22: the text saved under 'ai-settings' never contains the API key as  *)
(* it was typed.                                                          *)
C22_SavedSettingsHideTheApiKey ==
  (aiSettings # Null /\ apiKey # <<>>) => ~includes(aiSettings.s, apiKey)

---------------------------------------------------------------------------
(* C23: no step of the table or of the footer changes an array it was     *)
(* given: the client rows and the payment rows stay as they are, the list *)
(* processedData returned keeps its order once it is computed, and the    *)
(* data prop of the footer keeps its order.                               *)
C23_GivenArraysKeepTheirOrder ==
  [][/\ newClientData' = newClientData
     /\ salesData' = salesData
     /\ pc # "props" => processed' = processed
     /\ data' = data]_vars

---------------------------------------------------------------------------
(* C24: in every result the status and the purchase fields agree: a       *)
(* converted client has all four purchase fields, a purchase value above  *)
(* 0 and a number of days that is not negative; a client that did not     *)
(* convert has none of the four.                                          *)
PurchaseFields(r) ==
  { r.firstPurchaseDate, r.firstPurchaseProduct, r.firstPurchaseValue, r.daysToConversion }

C24_StatusAgreesWithPurchaseFields ==
  \A k \in Results :
    LET r == processed[k] IN
    /\ r.conversionStatus \in {"converted", "not_converted"}
    /\ r.conversionStatus = "converted" <=> Null \notin PurchaseFields(r)
    /\ r.conversionStatus = "not_converted" <=> PurchaseFields(r) = {Null}
    /\ r.conversionStatus = "converted" =>
         /\ Gt(r.firstPurchaseValue, Num(0))
         /\ Geq(r.daysToConversion, Num(0))

(* a client converted on the day of the visit next to one that has        *)
(* candidates and did not convert                                         *)
C24_Witness ==
  /\ pc = "done"
  /\ \E k \in Results :
       /\ processed[k].conversionStatus = "converted"
       /\ processed[k].daysToConversion = Num(0)
  /\ \E k \in Results :
       /\ processed[k].conversionStatus = "not_converted"
       /\ \E j \in Sales : IsCandidate(processed[k], j)

---------------------------------------------------------------------------
(* C25: a client whose row has no e-mail (missing or empty) and no member *)
(* ID has no candidate purchase, whatever the payment rows hold in their  *)
(* own e-mail and member ID cells.                                        *)
HasNoIdentifier(row) ==
  \A c \in {"Email", "email", "Member ID", "memberID", "id"} : ~Truthy(row[c])

C25_BlankIdentifierNeverMatches ==
  pc = "done" =>
    \A k \in Results :
      HasNoIdentifier(RowOfResult(k)) => \A j \in Sales : ~IsCandidate(processed[k], j)

---------------------------------------------------------------------------
(* C26: the step that ends a run leaves isProcessing false; it leaves     *)
(* resultsVisible true when the run went through and false when a         *)
(* parsing or processing step threw.                                      *)
EndsAs(r, how) == runs[r].at # how /\ runs'[r].at = how

C26_RunEndsWithItsOwnOutcome ==
  [][\A r \in 1..MaxRuns :
       /\ EndsAs(r, "done") => (~isProcessing' /\ resultsVisible')
       /\ EndsAs(r, "failed") => (~isProcessing' /\ ~resultsVisible')]_vars

(* C27: at most one invocation of handleProcessFiles is at work at any    *)
(* time, and isProcessing is true as long as one is.                      *)
RunsInFlight == { r \in 1..MaxRuns : runs[r].at \in InFlight }

C27_OneRunInFlight ==
  /\ Cardinality(RunsInFlight) <= 1
  /\ RunsInFlight # {} => isProcessing

---------------------------------------------------------------------------
(* C28: what is stored for processedData and for filteredData is the      *)
(* current state: a reload would restore exactly the two arrays the page  *)
(* holds, an empty filteredData included.                                 *)
Restored(stored) == loadFromStorage(stored).rows

C28_StorageHoldsTheCurrentState ==
  /\ Restored(storage.processed) = processedTeacherData
  /\ Restored(storage.filtered) = filteredData

---------------------------------------------------------------------------
(* C29: what the bar reports is the array of the non-null items of data,  *)
(* in their order, whose value in every dimension with a non-empty        *)
(* selection is one of the selected values; data that is not an array     *)
(* gives the empty array.                                                 *)
Matches(item, filters) ==
  \A d \in Dimensions : filters[d] # {} => item[FieldOf[d]] \in filters[d]

Expected(items, filters) ==
  IF ~isArray(items) THEN <<>>
  ELSE LET keep == { i \in 1..Len(items) : items[i] # Null /\ Matches(items[i], filters) }
           Place(n) == CHOOSE i \in keep : Cardinality({ j \in keep : j < i }) = n - 1
       IN  [n \in 1..Cardinality(keep) |-> items[Place(n)]]

C29_ReportsTheMatchingItems ==
  reported = Expected(barData, selectedFilters)

(* a null item is dropped and the other item is kept by the teacher and  *)
(* location filters, the period selection being empty                     *)
C29_Witness ==
  /\ isArray(barData)
  /\ Len(barData) = 2
  /\ barData[1] = Null
  /\ selectedFilters.teacher = {"Ann"}
  /\ selectedFilters.location # {}
  /\ selectedFilters.period = {}
  /\ reported = <<barData[2]>>

---------------------------------------------------------------------------
(* The queries of the accepted submissions that ended in one of the given *)
(* ways, in submission order                                              *)
QueriesThat(ended) ==
  LET them == SelectSeq(accepted, LAMBDA a : a.outcome \in ended)
  IN  [i \in 1..Len(them) |-> them[i].query]

AnsweredQueries == [i \in 1..Len(responses) |-> responses[i].query]

(* blank and in-flight submissions are ignored: no accepted query is      *)
(* blank, only the last one can be pending and isProcessing tells it      *)
Serialized ==
  /\ \A i \in 1..Len(accepted) :
       /\ accepted[i].query # <<>>
       /\ accepted[i].outcome = "pending" => i = Len(accepted)
  /\ queryProcessing <=> (\E i \in 1..Len(accepted) : accepted[i].outcome = "pending")

(* C30 as stated: submissions are serialized and the responses are, in    *)
(* submission order, those of every accepted query whose analysis has     *)
(* ended, whether it returned or threw.                                   *)
C30_EveryAcceptedQueryIsAnswered ==
  /\ Serialized
  /\ AnsweredQueries = QueriesThat({"returned", "threw"})

(* C30 amended: submissions are serialized and the responses are, in      *)
(* submission order, those of the accepted queries whose analysis         *)
(* returned; a query whose analysis threw has no response, and            *)
(* isProcessing is false once the analysis has ended either way.          *)
C30_ReturnedQueriesAreAnswered ==
  /\ Serialized
  /\ AnsweredQueries = QueriesThat({"returned"})

(* one analysis threw, a later one returned and nothing is in flight *)
C30_Witness ==
  /\ Len(accepted) = 2
  /\ accepted[1].outcome = "threw"
  /\ accepted[2].outcome = "returned"
  /\ Len(responses) = 1
  /\ ~queryProcessing

=============================================================================
